---- MODULE Spec2Model ----
(***************************************************************************)
(* A model of the SWIM protocol engine of dkmccandless/swim: the state     *)
(* machine (stateMachine), its round-robin-random Order, its recurrent     *)
(* priority queues, and the Node that drives it and dispatches the join,   *)
(* memo and fail handlers.                                                 *)
(*                                                                         *)
(* Go slices are sequences; Go indices are 0-based and kept 0-based in     *)
(* every field that stores an index (Order.next, priorityQueue.index), so  *)
(* element i of a slice a is a[i+1].                                       *)
(***************************************************************************)
EXTENDS Integers, Sequences, FiniteSets, Bags, TLC

\* ------------------------------------------------------------------ bounds

\* Largest incarnation a remote message carries.
MaxInc == 1

\* Largest number of messages in a received packet.
MaxPktMsgs == 1

\* Largest member count the quota and the suspicion timeout are tabulated for.
MaxMembers == 6

\* Largest number of packets received in the memo scenarios.
MaxMemoRecv == 4

\* Largest number of values sent on the Chan on its own.
MaxSends == 3

\* Largest quota of the Queue on its own.
MaxQuota == 2

\* Largest number of items of the Queue on its own.
MaxQueueLen == 5

\* Largest count an item of the Queue on its own may have when it is popped.
MaxCount == 2

\* Largest number of packets the node receives in a run.
MaxRecv == 2

\* Largest number of protocol periods in a run.
MaxTicks == 5

\* The packets and the protocol periods of a run with handler goroutines.
MaxNodeRecv == 3
MaxNodeTicks == 1

\* The size of the group the node learns of in the group scenarios, and the
\* numbers of packets it receives and of periods it begins there.
MaxGroup == 4
MaxGroupRecv == 2
MaxGroupTicks == 3

\* The numbers of periods the node begins and of peers that introduce
\* themselves in the scenarios with delayed acks.
MaxAckTicks == 3
MaxAckIntros == 2

\* The number of packets the node receives in the suspicion scenarios.
MaxSuspectRecv == 3

\* ------------------------------------------------------------- identities

\* The local node's id (stateMachine.id).
Self == "s"

\* The ids of the remote peers.
Peers == {"a", "b"}

\* The zero value of type id.
NoID == ""

\* The zero value of netip.AddrPort.
NoAddr == "noaddr"

\* The UDP source address of a peer.
AddrOf(i) == "@" \o i

\* The memo ids remote peers use, and the ones randID() gives the local node.
RemoteMemoIDs == {"m1", "m2"}
LocalMemoIDs == {"m0"}
AllMemoIDs == RemoteMemoIDs \cup LocalMemoIDs

\* The bodies an application posts; a body stands for its length in bytes.
Bodies == {"yo", "b500", "b501"}

BodyLen(b) == IF b = "b501" THEN 501 ELSE IF b = "b500" THEN 500 ELSE 2

\* The length limit of PostMemo.
MaxBodyLen == 500

\* ------------------------------------------------------------ small helpers

Range(f) == {f[x] : x \in DOMAIN f}

Min(x, y) == IF x <= y THEN x ELSE y

\* The sequence f[1], ..., f[n], built element by element.
RECURSIVE SeqOf(_, _)
SeqOf(f, n) == IF n = 0 THEN <<>> ELSE Append(SeqOf(f, n - 1), f[n])

\* The map with keys S and the values of f, built key by key.
RECURSIVE MapOf(_, _)
MapOf(f, S) ==
    IF S = {} THEN <<>>
    ELSE LET x == CHOOSE x \in S : TRUE IN (x :> f[x]) @@ MapOf(f, S \ {x})

EmptyMap == <<>>

\* A map without key k (Go's delete(m, k)).
MapDelete(m, k) == MapOf(m, (DOMAIN m) \ {k})

\* A map with m[k] = v (Go's m[k] = v).
MapPut(m, k, v) == (k :> v) @@ m

\* A slice with element k (1-based) replaced by v.
SeqPut(a, k, v) == SeqOf([x \in 1..Len(a) |-> IF x = k THEN v ELSE a[x]], Len(a))

\* All orderings of a finite set, as sequences without repetition.
Perms(S) == {p \in [1..Cardinality(S) -> S] : \A i, j \in DOMAIN p : p[i] = p[j] => i = j}

\* ------------------------------------------------- recurrent priority queue

\* makePriorityQueue: no items, empty index.
makePriorityQueue == [items |-> <<>>, index |-> EmptyMap]

\* priorityQueue.Less(i, j)
pqLess(pq, i, j) == pq.items[i + 1].count < pq.items[j + 1].count

\* priorityQueue.Swap(i, j): exchanges the items and, for each key that is
\* in the index, records its new position.
pqSwap(pq, i, j) ==
    LET a == pq.items[j + 1]
        b == pq.items[i + 1]
        ix1 == IF a.key \in DOMAIN pq.index THEN MapPut(pq.index, a.key, i) ELSE pq.index
        ix2 == IF b.key \in DOMAIN ix1 THEN MapPut(ix1, b.key, j) ELSE ix1
    IN [items |-> SeqPut(SeqPut(pq.items, i + 1, a), j + 1, b), index |-> ix2]

\* priorityQueue.Push(item): appends, indexing the item unless its key is zero.
pqPush(pq, it) ==
    [items |-> Append(pq.items, it),
     index |-> IF it.key # NoID THEN MapPut(pq.index, it.key, Len(pq.items)) ELSE pq.index]

\* priorityQueue.Pop(): drops the last item and its key from the index.
pqPop(pq) ==
    LET last == Len(pq.items)
    IN [items |-> SubSeq(pq.items, 1, last - 1),
        index |-> MapDelete(pq.index, pq.items[last].key)]

\* container/heap up(h, j), as used through heap.Push, heap.Fix, heap.Remove.
RECURSIVE heapUp(_, _)
heapUp(pq, j) ==
    LET i == IF j = 0 THEN 0 ELSE (j - 1) \div 2
    IN IF i = j \/ ~pqLess(pq, j, i) THEN pq ELSE heapUp(pqSwap(pq, i, j), i)

\* container/heap down(h, i0, n): the queue and the index where the item
\* that started at i0 ended.
RECURSIVE heapDownFrom(_, _, _)
heapDownFrom(pq, i, n) ==
    LET j1 == 2 * i + 1
        j2 == j1 + 1
        j == IF j2 < n /\ pqLess(pq, j2, j1) THEN j2 ELSE j1
    IN IF j1 >= n THEN [pq |-> pq, i |-> i]
       ELSE IF ~pqLess(pq, j, i) THEN [pq |-> pq, i |-> i]
       ELSE heapDownFrom(pqSwap(pq, i, j), j, n)

\* heap.Fix(h, i)
heapFix(pq, i) ==
    LET d == heapDownFrom(pq, i, Len(pq.items))
    IN IF d.i > i THEN d.pq ELSE heapUp(d.pq, i)

\* heap.Push(h, x)
heapPush(pq, it) == heapUp(pqPush(pq, it), Len(pq.items))

\* heap.Pop(h)
heapPop(pq) ==
    LET n == Len(pq.items) - 1
    IN pqPop(heapDownFrom(pqSwap(pq, 0, n), 0, n).pq)

\* heap.Remove(h, i)
heapRemove(pq, i) ==
    LET n == Len(pq.items) - 1
        sw == pqSwap(pq, i, n)
        d == heapDownFrom(sw, i, n)
    IN IF n # i
       THEN pqPop(IF d.i > i THEN d.pq ELSE heapUp(d.pq, i))
       ELSE pqPop(pq)

\* Queue.Len
QLen(q) == Len(q.items)

\* Upsert that keeps the count of a present key.
UpsertKeepsCount(q, key, value) ==
    IF key \in DOMAIN q.index
    THEN LET i == q.index[key]
             it == [key |-> key, value |-> value, count |-> q.items[i + 1].count]
         IN heapFix([items |-> SeqPut(q.items, i + 1, it), index |-> q.index], i)
    ELSE heapPush(q, [key |-> key, value |-> value, count |-> 0])

\* Queue.Upsert (Queue.Push in rpq.go): replaces the value of a present key
\* and resets its count, or inserts a new item with count 0.
Upsert(q, key, value) ==
    IF key \in DOMAIN q.index
    THEN LET i == q.index[key]
             it == [key |-> key, value |-> value, count |-> 0]
         IN heapFix([items |-> SeqPut(q.items, i + 1, it), index |-> q.index], i)
    ELSE heapPush(q, [key |-> key, value |-> value, count |-> 0])

\* Queue.Pop: the head's value; the head leaves the queue when its
\* incremented count reaches the quota. Called on a non-empty queue only.
QPop(q, quota) ==
    LET head == q.items[1]
        inc == [items |-> SeqPut(q.items, 1, [key |-> head.key, value |-> head.value,
                                              count |-> head.count + 1]),
                index |-> q.index]
    IN [value |-> q.items[1].value,
        q |-> IF inc.items[1].count >= quota THEN heapPop(inc) ELSE heapFix(inc, 0)]

\* The second loop of Queue.PopN, from index i down to 0.
RECURSIVE PopNSettle(_, _, _)
PopNSettle(q, i, quota) ==
    IF i < 0 THEN q
    ELSE PopNSettle(IF q.items[i + 1].count >= quota THEN heapRemove(q, i) ELSE heapFix(q, i),
                    i - 1, quota)

\* Queue.PopN: the values of the first min(n, Len) items of the heap array,
\* in array order.
PopN(q, n0, quota) ==
    LET n == IF n0 > QLen(q) THEN QLen(q) ELSE n0
        inc == [items |-> SeqOf([k \in 1..Len(q.items) |->
                              IF k <= n
                              THEN [key |-> q.items[k].key, value |-> q.items[k].value,
                                    count |-> q.items[k].count + 1]
                              ELSE q.items[k]], Len(q.items)),
                index |-> q.index]
    IN [values |-> SeqOf([k \in 1..n |-> q.items[k].value], n),
        q |-> PopNSettle(inc, n - 1, quota)]

\* Queue.Remove
QRemove(q, key) ==
    IF key \in DOMAIN q.index THEN heapRemove(q, q.index[key]) ELSE q

\* ------------------------------------------------- round-robin-random order

\* The zero Order.
NewOrder == [a |-> <<>>, next |-> 0]

\* Order.swap
orderSwap(a, i, j) == SeqPut(SeqPut(a, i + 1, a[j + 1]), j + 1, a[i + 1])

\* Order.Next for each outcome of rand.Shuffle: the value returned and the
\* Order afterwards. An empty Order returns the zero id.
OrderNext(o) ==
    IF Len(o.a) = 0 THEN {[t |-> NoID, o |-> o]}
    ELSE IF o.next = Len(o.a)
    THEN {[t |-> o.a[f[1]], o |-> [a |-> SeqOf([i \in DOMAIN o.a |-> o.a[f[i]]], Len(o.a)),
                                   next |-> 1]] :
             f \in Perms(DOMAIN o.a)}
    ELSE {[t |-> o.a[o.next + 1], o |-> [o EXCEPT !.next = @ + 1]]}

\* addAt that puts t at index k whatever next is.
addAtAnywhere(o, t, k) ==
    LET a == Append(o.a, t)
        last == Len(a) - 1
    IN [a |-> orderSwap(a, k, last), next |-> o.next]

\* Order.addAt(t, k)
addAt(o, t, k) ==
    LET a == Append(o.a, t)
        last == Len(a) - 1
    IN IF k < o.next
       THEN [a |-> orderSwap(a, o.next, last), next |-> o.next + 1]
       ELSE [a |-> orderSwap(a, k, last), next |-> o.next]

\* Order.Add for each outcome of rand.Intn(len(o.a)+1).
OrderAdd(o, t) == {addAt(o, t, k) : k \in 0..Len(o.a)}

\* removeAt that leaves next where it was.
removeAtStaleNext(o, k) ==
    LET visited == k < o.next
        nx == IF visited THEN o.next - 1 ELSE o.next
        a1 == IF visited THEN orderSwap(o.a, k, nx) ELSE o.a
        k1 == IF visited THEN nx ELSE k
        last == Len(a1) - 1
    IN [a |-> SubSeq(orderSwap(a1, k1, last), 1, last), next |-> o.next]

\* Order.removeAt(k)
removeAt(o, k) ==
    LET visited == k < o.next
        nx == IF visited THEN o.next - 1 ELSE o.next
        a1 == IF visited THEN orderSwap(o.a, k, nx) ELSE o.a
        k1 == IF visited THEN nx ELSE k
        last == Len(a1) - 1
    IN [a |-> SubSeq(orderSwap(a1, k1, last), 1, last), next |-> nx]

\* Order.Remove: removes the first instance of t, if any.
OrderRemove(o, t) ==
    IF \E i \in DOMAIN o.a : o.a[i] = t
    THEN removeAt(o, (CHOOSE i \in DOMAIN o.a : o.a[i] = t /\ \A j \in 1..(i - 1) : o.a[j] # t) - 1)
    ELSE o

\* IndependentSample that does not skip exclude.
IndependentSampleAny(o, n, exclude) ==
    LET els == DOMAIN o.a
        m == Min(n, Cardinality(els))
    IN {SeqOf([k \in 1..m |-> o.a[f[k]]], m) : f \in {g \in [1..m -> els] : \A i, j \in 1..m : g[i] = g[j] => i = j}}

\* Order.IndependentSample for each outcome of rand.Perm: up to n distinct
\* elements other than exclude, in the order drawn.
IndependentSample(o, n, exclude) ==
    LET els == {i \in DOMAIN o.a : o.a[i] # exclude}
        m == Min(n, Cardinality(els))
    IN {SeqOf([k \in 1..m |-> o.a[f[k]]], m) : f \in {g \in [1..m -> els] : \A i, j \in 1..m : g[i] = g[j] => i = j}}

\* ------------------------------------------------------------ state machine

\* msgType
MsgTypes == {"alive", "suspected", "failed", "memo"}

\* packetType
PacketTypes == {"ping", "pingReq", "ack"}

\* A message; fields a Go literal leaves out hold their zero value.
Message(typ, nodeID, addr, inc, memoID, body) ==
    [Type |-> typ, NodeID |-> nodeID, Addr |-> addr, Incarnation |-> inc,
     MemoID |-> memoID, Body |-> body]

\* The nil *message.
NilMsg == Message("nil", NoID, NoAddr, 0, NoID, "")

\* A packet.
Packet(typ, remoteID, remoteAddr, targetID, targetAddr, msgs) ==
    [Type |-> typ, remoteID |-> remoteID, remoteAddr |-> remoteAddr,
     TargetID |-> targetID, TargetAddr |-> targetAddr, Msgs |-> msgs]

\* floor(e^d) for d = 1..8; e^d is irrational, so for an integer x
\* x <= e^d iff x <= ExpFloor[d], and e^d <= x iff ExpFloor[d] < x.
ExpFloor == <<2, 7, 20, 54, 148, 403, 1096, 2980>>

\* int(math.Ceil(3 * math.Log(n))) for n >= 1: the least d with n^3 <= e^d.
CeilLog3(n) ==
    IF n = 1 THEN 0
    ELSE CHOOSE d \in 1..Len(ExpFloor) :
           /\ n * n * n <= ExpFloor[d]
           /\ \A d2 \in 1..(d - 1) : n * n * n > ExpFloor[d2]

\* int(3 * math.Log(n)) for n >= 1: the greatest d with e^d <= n^3.
FloorLog3(n) ==
    IF n * n * n <= ExpFloor[1] THEN 0
    ELSE CHOOSE d \in 1..Len(ExpFloor) :
           /\ ExpFloor[d] < n * n * n
           /\ \A d2 \in (d + 1)..Len(ExpFloor) : ExpFloor[d2] >= n * n * n

\* What int(3*math.Log(0)) + 1 gives: the conversion of -Inf yields the least
\* int64 on the supported platforms, far below every counter; it is
\* represented by the least number TLC's integers hold.
LogOfZeroTimeout == -2147483647

\* The state after newStateMachine.
newStateMachine ==
    [id |-> Self,
     incarnation |-> 0,
     members |-> EmptyMap,
     suspects |-> EmptyMap,
     removed |-> {},
     order |-> NewOrder,
     msgQueue |-> makePriorityQueue,
     memoQueue |-> makePriorityQueue,
     seenMemos |-> {},
     pingTarget |-> NoID,
     gotAck |-> FALSE,
     pingReqs |-> EmptyMap,
     nPingReqs |-> 2,
     maxMsgs |-> 6]

\* The quota of both queues (logn3 in newStateMachine).
logn3(s) == CeilLog3(Cardinality(DOMAIN s.members) + 1)

\* suspicionTimeout without the + 1.
suspicionTimeoutNoPlusOne(s) ==
    IF Cardinality(DOMAIN s.members) = 0 THEN LogOfZeroTimeout
    ELSE FloorLog3(Cardinality(DOMAIN s.members))

\* stateMachine.suspicionTimeout
suspicionTimeout(s) ==
    IF Cardinality(DOMAIN s.members) = 0 THEN LogOfZeroTimeout
    ELSE FloorLog3(Cardinality(DOMAIN s.members)) + 1

\* stateMachine.isMember
isMember(s, id) == id \in DOMAIN s.members

\* stateMachine.isSuspect
isSuspect(s, id) == id \in DOMAIN s.suspects

\* isMemberNews that takes every id outside members as news.
isMemberNewsIgnoresRemoved(s, m) ==
    IF m = NilMsg THEN FALSE
    ELSE IF m.Type = "memo" THEN FALSE
    ELSE IF ~isMember(s, m.NodeID) THEN TRUE
    ELSE IF m.Type = "failed" THEN TRUE
    ELSE IF m.Incarnation = s.members[m.NodeID].incarnation
         THEN m.Type = "suspected" /\ ~isSuspect(s, m.NodeID)
    ELSE m.Incarnation > s.members[m.NodeID].incarnation

\* isMemberNews that takes a repeated suspicion as news.
isMemberNewsRepeatsSuspicion(s, m) ==
    IF m = NilMsg THEN FALSE
    ELSE IF m.Type = "memo" THEN FALSE
    ELSE IF ~isMember(s, m.NodeID) THEN m.NodeID \notin s.removed
    ELSE IF m.Type = "failed" THEN TRUE
    ELSE IF m.Incarnation = s.members[m.NodeID].incarnation
         THEN m.Type = "suspected"
    ELSE m.Incarnation > s.members[m.NodeID].incarnation

\* stateMachine.isMemberNews
isMemberNews(s, m) ==
    IF m = NilMsg THEN FALSE
    ELSE IF m.Type = "memo" THEN FALSE
    ELSE IF ~isMember(s, m.NodeID) THEN m.NodeID \notin s.removed
    ELSE IF m.Type = "failed" THEN TRUE
    ELSE IF m.Incarnation = s.members[m.NodeID].incarnation
         THEN m.Type = "suspected" /\ ~isSuspect(s, m.NodeID)
    ELSE m.Incarnation > s.members[m.NodeID].incarnation

\* stateMachine.aliveMessage
aliveMessage(s) == Message("alive", s.id, NoAddr, s.incarnation, NoID, "")

\* stateMachine.suspectedMessage; id is a member.
suspectedMessage(s, id) ==
    Message("suspected", id, s.members[id].addr, s.members[id].incarnation, NoID, "")

\* stateMachine.failedMessage; id is a member.
failedMessage(s, id) == Message("failed", id, s.members[id].addr, 0, NoID, "")

\* stateMachine.makeMessagePing
makeMessagePing(m) == Packet("ping", m.NodeID, m.Addr, NoID, NoAddr, <<m>>)

\* An Update sent on s.updates, or a Memo sent on s.memos.
\* The field memo is not part of a Memo: it records the memo id of the
\* message the Memo was made from.
JoinEvent(id) == [kind |-> "join", id |-> id, body |-> "", memo |-> NoID]
FailEvent(id) == [kind |-> "fail", id |-> id, body |-> "", memo |-> NoID]
MemoEvent(id, body, memoID) == [kind |-> "memo", id |-> id, body |-> body, memo |-> memoID]

\* The run of one engine operation: the state machine, the packets and
\* events produced so far, receive's boolean result, and whether the
\* operation has panicked (a nil *profile was dereferenced). A panicked
\* run executes nothing further.
Ctx(s) == [s |-> s, ps |-> <<>>, ev |-> <<>>, ok |-> TRUE, panic |-> FALSE]

Emit(c, e) == [c EXCEPT !.ev = Append(@, e)]

\* remove with the Update sent before the membership test.
removeAlwaysEmits(c, id) ==
    IF ~isMember(c.s, id) THEN Emit(c, FailEvent(id))
    ELSE [Emit(c, FailEvent(id)) EXCEPT
            !.s.members = MapDelete(@, id),
            !.s.suspects = MapDelete(@, id),
            !.s.removed = @ \cup {id},
            !.s.order = OrderRemove(@, id)]

\* remove without delete(s.members, id).
removeKeepsMember(c, id) ==
    IF ~isMember(c.s, id) THEN c
    ELSE [Emit(c, FailEvent(id)) EXCEPT
            !.s.suspects = MapDelete(@, id),
            !.s.removed = @ \cup {id},
            !.s.order = OrderRemove(@, id)]

\* remove without delete(s.suspects, id).
removeKeepsSuspect(c, id) ==
    IF ~isMember(c.s, id) THEN c
    ELSE [Emit(c, FailEvent(id)) EXCEPT
            !.s.members = MapDelete(@, id),
            !.s.removed = @ \cup {id},
            !.s.order = OrderRemove(@, id)]

\* remove that marks an id removed whether or not it was a member.
removeMarksUnknown(c, id) ==
    IF ~isMember(c.s, id) THEN [c EXCEPT !.s.removed = @ \cup {id}]
    ELSE [Emit(c, FailEvent(id)) EXCEPT
            !.s.members = MapDelete(@, id),
            !.s.suspects = MapDelete(@, id),
            !.s.removed = @ \cup {id},
            !.s.order = OrderRemove(@, id)]

\* stateMachine.remove
remove(c, id) ==
    IF ~isMember(c.s, id) THEN c
    ELSE [Emit(c, FailEvent(id)) EXCEPT
            !.s.members = MapDelete(@, id),
            !.s.suspects = MapDelete(@, id),
            !.s.removed = @ \cup {id},
            !.s.order = OrderRemove(@, id)]

\* updateStatus that replaces the profile of a member by a new one.
updateStatusNewProfile(c, m) ==
    LET id == m.NodeID
        setFields(c1) ==
            LET c2 == [c1 EXCEPT !.s.members = MapPut(@, id,
                                     [incarnation |-> m.Incarnation,
                                      contacted |-> FALSE,
                                      addr |-> m.Addr])]
            IN IF m.Type = "alive" THEN [c2 EXCEPT !.s.suspects = MapDelete(@, id)]
               ELSE IF m.Type = "suspected" THEN [c2 EXCEPT !.s.suspects = MapPut(@, id, 0)]
               ELSE c2
    IN IF m.Type = "failed" THEN {remove(c, id)}
       ELSE IF ~isMember(c.s, id)
       THEN {setFields([Emit(c, JoinEvent(id)) EXCEPT
                          !.s.members = MapPut(@, id, [incarnation |-> 0, contacted |-> FALSE,
                                                       addr |-> NoAddr]),
                          !.s.order = o]) : o \in OrderAdd(c.s.order, id)}
       ELSE {setFields(c)}

\* stateMachine.updateStatus, for each outcome of Order.Add.
updateStatus(c, m) ==
    LET id == m.NodeID
        setFields(c1) ==
            LET c2 == [c1 EXCEPT !.s.members = MapPut(@, id,
                                     [incarnation |-> m.Incarnation,
                                      contacted |-> c1.s.members[id].contacted,
                                      addr |-> m.Addr])]
            IN IF m.Type = "alive" THEN [c2 EXCEPT !.s.suspects = MapDelete(@, id)]
               ELSE IF m.Type = "suspected" THEN [c2 EXCEPT !.s.suspects = MapPut(@, id, 0)]
               ELSE c2
    IN IF m.Type = "failed" THEN {remove(c, id)}
       ELSE IF ~isMember(c.s, id)
       THEN {setFields([Emit(c, JoinEvent(id)) EXCEPT
                          !.s.members = MapPut(@, id, [incarnation |-> 0, contacted |-> FALSE,
                                                       addr |-> NoAddr]),
                          !.s.order = o]) : o \in OrderAdd(c.s.order, id)}
       ELSE {setFields(c)}

\* The refutation with the Alive message made before the increment.
refuteStaleAlive(c, m) ==
    IF m.Type = "suspected" /\ m.Incarnation = c.s.incarnation
    THEN [c EXCEPT !.s = [c.s EXCEPT !.incarnation = @ + 1,
                                     !.msgQueue = Upsert(@, c.s.id, aliveMessage(c.s))]]
    ELSE c

\* The refutation of a suspicion of any incarnation.
refuteAnyIncarnation(c, m) ==
    IF m.Type = "suspected"
    THEN LET s1 == [c.s EXCEPT !.incarnation = @ + 1]
         IN [c EXCEPT !.s = [s1 EXCEPT !.msgQueue = Upsert(@, s1.id, aliveMessage(s1))]]
    ELSE c

\* processMsg, case m.NodeID == s.id: the refutation of a suspicion that
\* carries the local incarnation.
refute(c, m) ==
    IF m.Type = "suspected" /\ m.Incarnation = c.s.incarnation
    THEN LET s1 == [c.s EXCEPT !.incarnation = @ + 1]
         IN [c EXCEPT !.s = [s1 EXCEPT !.msgQueue = Upsert(@, s1.id, aliveMessage(s1))]]
    ELSE c

\* processMsg without the case of the local id.
processMsgNoSelfCase(c, m) ==
    IF m.Type = "memo"
    THEN IF m.MemoID \in c.s.seenMemos THEN {c}
         ELSE {[Emit(c, MemoEvent(m.NodeID, m.Body, m.MemoID)) EXCEPT
                  !.s.seenMemos = @ \cup {m.MemoID},
                  !.s.memoQueue = Upsert(@, m.MemoID, m)]}
    ELSE IF isMemberNews(c.s, m)
    THEN {[c1 EXCEPT !.s.msgQueue = Upsert(@, m.NodeID, m)] : c1 \in updateStatus(c, m)}
    ELSE {c}

\* stateMachine.processMsg, for each outcome of Order.Add; ok is its result.
processMsg(c, m) ==
    IF m.NodeID = c.s.id
    THEN {[refute(c, m) EXCEPT !.ok = (m.Type # "failed")]}
    ELSE IF m.Type = "memo"
    THEN IF m.MemoID \in c.s.seenMemos THEN {c}
         ELSE {[Emit(c, MemoEvent(m.NodeID, m.Body, m.MemoID)) EXCEPT
                  !.s.seenMemos = @ \cup {m.MemoID},
                  !.s.memoQueue = Upsert(@, m.MemoID, m)]}
    ELSE IF isMemberNews(c.s, m)
    THEN {[c1 EXCEPT !.s.msgQueue = Upsert(@, m.NodeID, m)] : c1 \in updateStatus(c, m)}
    ELSE {c}

\* makePacket without the introductory alive message.
makePacketNoIntro(c, typ, dst, target, targetAddr) ==
    IF c.panic THEN c
    ELSE IF ~isMember(c.s, dst) THEN [c EXCEPT !.panic = TRUE]
    ELSE LET intro == ~c.s.members[dst].contacted
             s1 == [c.s EXCEPT !.members = MapPut(@, dst,
                                    [incarnation |-> c.s.members[dst].incarnation,
                                     contacted |-> TRUE,
                                     addr |-> c.s.members[dst].addr])]
             msgs1 == <<>>
             hasMemo == QLen(s1.memoQueue) > 0
             mp == QPop(s1.memoQueue, logn3(s1))
             s2 == IF hasMemo THEN [s1 EXCEPT !.memoQueue = mp.q] ELSE s1
             msgs2 == IF hasMemo THEN Append(msgs1, mp.value) ELSE msgs1
             pn == PopN(s2.msgQueue, s2.maxMsgs - Len(msgs2), logn3(s2))
             s3 == [s2 EXCEPT !.msgQueue = pn.q]
         IN [c EXCEPT !.s = s3,
                      !.ps = Append(@, Packet(typ, dst, s3.members[dst].addr, target,
                                              targetAddr, msgs2 \o pn.values))]

\* makePacket that leaves the memo queue alone.
makePacketNoMemo(c, typ, dst, target, targetAddr) ==
    IF c.panic THEN c
    ELSE IF ~isMember(c.s, dst) THEN [c EXCEPT !.panic = TRUE]
    ELSE LET intro == ~c.s.members[dst].contacted
             s1 == [c.s EXCEPT !.members = MapPut(@, dst,
                                    [incarnation |-> c.s.members[dst].incarnation,
                                     contacted |-> TRUE,
                                     addr |-> c.s.members[dst].addr])]
             msgs1 == IF intro THEN <<aliveMessage(s1)>> ELSE <<>>
             hasMemo == FALSE
             mp == QPop(s1.memoQueue, logn3(s1))
             s2 == IF hasMemo THEN [s1 EXCEPT !.memoQueue = mp.q] ELSE s1
             msgs2 == IF hasMemo THEN Append(msgs1, mp.value) ELSE msgs1
             pn == PopN(s2.msgQueue, s2.maxMsgs - Len(msgs2), logn3(s2))
             s3 == [s2 EXCEPT !.msgQueue = pn.q]
         IN [c EXCEPT !.s = s3,
                      !.ps = Append(@, Packet(typ, dst, s3.members[dst].addr, target,
                                              targetAddr, msgs2 \o pn.values))]

\* makePacket that fills up with maxMsgs membership messages whatever the
\* packet holds already.
makePacketOverfull(c, typ, dst, target, targetAddr) ==
    IF c.panic THEN c
    ELSE IF ~isMember(c.s, dst) THEN [c EXCEPT !.panic = TRUE]
    ELSE LET intro == ~c.s.members[dst].contacted
             s1 == [c.s EXCEPT !.members = MapPut(@, dst,
                                    [incarnation |-> c.s.members[dst].incarnation,
                                     contacted |-> TRUE,
                                     addr |-> c.s.members[dst].addr])]
             msgs1 == IF intro THEN <<aliveMessage(s1)>> ELSE <<>>
             hasMemo == QLen(s1.memoQueue) > 0
             mp == QPop(s1.memoQueue, logn3(s1))
             s2 == IF hasMemo THEN [s1 EXCEPT !.memoQueue = mp.q] ELSE s1
             msgs2 == IF hasMemo THEN Append(msgs1, mp.value) ELSE msgs1
             pn == PopN(s2.msgQueue, s2.maxMsgs, logn3(s2))
             s3 == [s2 EXCEPT !.msgQueue = pn.q]
         IN [c EXCEPT !.s = s3,
                      !.ps = Append(@, Packet(typ, dst, s3.members[dst].addr, target,
                                              targetAddr, msgs2 \o pn.values))]

\* stateMachine.makePacket; the packet is appended to the run's packets.
\* Reading the profile of a dst that is not a member panics.
makePacket(c, typ, dst, target, targetAddr) ==
    IF c.panic THEN c
    ELSE IF ~isMember(c.s, dst) THEN [c EXCEPT !.panic = TRUE]
    ELSE LET intro == ~c.s.members[dst].contacted
             s1 == [c.s EXCEPT !.members = MapPut(@, dst,
                                    [incarnation |-> c.s.members[dst].incarnation,
                                     contacted |-> TRUE,
                                     addr |-> c.s.members[dst].addr])]
             msgs1 == IF intro THEN <<aliveMessage(s1)>> ELSE <<>>
             hasMemo == QLen(s1.memoQueue) > 0
             mp == QPop(s1.memoQueue, logn3(s1))
             s2 == IF hasMemo THEN [s1 EXCEPT !.memoQueue = mp.q] ELSE s1
             msgs2 == IF hasMemo THEN Append(msgs1, mp.value) ELSE msgs1
             pn == PopN(s2.msgQueue, s2.maxMsgs - Len(msgs2), logn3(s2))
             s3 == [s2 EXCEPT !.msgQueue = pn.q]
         IN [c EXCEPT !.s = s3,
                      !.ps = Append(@, Packet(typ, dst, s3.members[dst].addr, target,
                                              targetAddr, msgs2 \o pn.values))]

makePing(c, dst) == makePacket(c, "ping", dst, NoID, NoAddr)

makeAck(c, dst) == makePacket(c, "ack", dst, NoID, NoAddr)

makePingReq(c, dst, target, targetAddr) == makePacket(c, "pingReq", dst, target, targetAddr)

makeReqAck(c, dst, target, targetAddr) == makePacket(c, "ack", dst, target, targetAddr)

\* The suspicion loop with > in place of >=.
RECURSIVE tickSuspectsStrict(_, _, _)
tickSuspectsStrict(c, ids, i) ==
    IF i > Len(ids) \/ c.panic THEN c
    ELSE LET id == ids[i]
             c1 == [c EXCEPT !.s.suspects = MapPut(@, id, c.s.suspects[id] + 1)]
         IN IF c1.s.suspects[id] > suspicionTimeout(c1.s)
            THEN IF ~isMember(c1.s, id) THEN [c1 EXCEPT !.panic = TRUE]
                 ELSE
                 LET m == failedMessage(c1.s, id)
                     c2 == [c1 EXCEPT !.s.msgQueue = Upsert(@, id, m),
                                      !.ps = Append(@, makeMessagePing(m))]
                 IN tickSuspectsStrict(remove(c2, id), ids, i + 1)
            ELSE tickSuspectsStrict(c1, ids, i + 1)

\* The suspicion loop of stateMachine.tick over the suspects in the order
\* ids, one ordering of the keys that range s.suspects produces.
RECURSIVE tickSuspects(_, _, _)
tickSuspects(c, ids, i) ==
    IF i > Len(ids) \/ c.panic THEN c
    ELSE LET id == ids[i]
             c1 == [c EXCEPT !.s.suspects = MapPut(@, id, c.s.suspects[id] + 1)]
         IN IF c1.s.suspects[id] >= suspicionTimeout(c1.s)
            THEN IF ~isMember(c1.s, id) THEN [c1 EXCEPT !.panic = TRUE]
                 ELSE
                 LET m == failedMessage(c1.s, id)
                     c2 == [c1 EXCEPT !.s.msgQueue = Upsert(@, id, m),
                                      !.ps = Append(@, makeMessagePing(m))]
                 IN tickSuspects(remove(c2, id), ids, i + 1)
            ELSE tickSuspects(c1, ids, i + 1)

\* The rest of tick without the suspicion of a ping target that sent no ack.
tickTargetTrusting(c) ==
    LET id == c.s.pingTarget
        c1 == IF FALSE
              THEN LET s1 == IF ~isSuspect(c.s, id)
                             THEN [c.s EXCEPT !.suspects = MapPut(@, id, 0)]
                             ELSE c.s
                       m == suspectedMessage(s1, id)
                   IN [c EXCEPT !.s = [s1 EXCEPT !.msgQueue = Upsert(@, id, m)],
                                !.ps = Append(@, makeMessagePing(m))]
              ELSE c
        c2 == [c1 EXCEPT !.s.gotAck = FALSE, !.s.pingReqs = EmptyMap]
    IN {LET c3 == [c2 EXCEPT !.s.order = n.o, !.s.pingTarget = n.t]
        IN IF n.t = NoID THEN c3 ELSE makePing(c3, n.t) : n \in OrderNext(c2.s.order)}

\* The rest of tick, setting the counter of the expired ping target to 0
\* whether or not it is a suspect already.
tickTargetResets(c) ==
    LET id == c.s.pingTarget
        c1 == IF ~c.s.gotAck /\ isMember(c.s, id)
              THEN LET s1 == [c.s EXCEPT !.suspects = MapPut(@, id, 0)]
                       m == suspectedMessage(s1, id)
                   IN [c EXCEPT !.s = [s1 EXCEPT !.msgQueue = Upsert(@, id, m)],
                                !.ps = Append(@, makeMessagePing(m))]
              ELSE c
        c2 == [c1 EXCEPT !.s.gotAck = FALSE, !.s.pingReqs = EmptyMap]
    IN {LET c3 == [c2 EXCEPT !.s.order = n.o, !.s.pingTarget = n.t]
        IN IF n.t = NoID THEN c3 ELSE makePing(c3, n.t) : n \in OrderNext(c2.s.order)}

\* The rest of stateMachine.tick: the expired ping target, the reset, and
\* the next ping.
tickTarget(c) ==
    LET id == c.s.pingTarget
        c1 == IF ~c.s.gotAck /\ isMember(c.s, id)
              THEN LET s1 == IF ~isSuspect(c.s, id)
                             THEN [c.s EXCEPT !.suspects = MapPut(@, id, 0)]
                             ELSE c.s
                       m == suspectedMessage(s1, id)
                   IN [c EXCEPT !.s = [s1 EXCEPT !.msgQueue = Upsert(@, id, m)],
                                !.ps = Append(@, makeMessagePing(m))]
              ELSE c
        c2 == [c1 EXCEPT !.s.gotAck = FALSE, !.s.pingReqs = EmptyMap]
    IN {LET c3 == [c2 EXCEPT !.s.order = n.o, !.s.pingTarget = n.t]
        IN IF n.t = NoID THEN c3 ELSE makePing(c3, n.t) : n \in OrderNext(c2.s.order)}

\* stateMachine.tick, for each iteration order of s.suspects and each
\* outcome of the shuffle.
tick(c) ==
    UNION {LET c1 == tickSuspects(c, ids, 1)
           IN IF c1.panic THEN {c1} ELSE tickTarget(c1) : ids \in Perms(DOMAIN c.s.suspects)}

\* The loop of stateMachine.timeout over one sample.
RECURSIVE timeoutReqs(_, _, _)
timeoutReqs(c, ids, i) ==
    IF i > Len(ids) \/ c.panic THEN c
    ELSE timeoutReqs(makePingReq(c, ids[i], c.s.pingTarget, c.s.members[c.s.pingTarget].addr),
                     ids, i + 1)

\* stateMachine.timeout, for each outcome of IndependentSample.
timeout(c) ==
    IF c.s.gotAck \/ ~isMember(c.s, c.s.pingTarget) THEN {c}
    ELSE {timeoutReqs(c, ids, 1) :
            ids \in IndependentSample(c.s.order, c.s.nPingReqs, c.s.pingTarget)}

\* The loop of the ack case of processPacketType over the requestors in the
\* order srcs, one ordering of the keys that range s.pingReqs produces.
RECURSIVE forwardAcks(_, _, _, _)
forwardAcks(c, p, srcs, i) ==
    IF i > Len(srcs) \/ c.panic THEN c
    ELSE LET src == srcs[i]
         IN IF c.s.pingReqs[src] = p.remoteID
            THEN LET c1 == makeReqAck(c, src, p.remoteID, p.remoteAddr)
                 IN forwardAcks(IF c1.panic THEN c1
                                ELSE [c1 EXCEPT !.s.pingReqs = MapDelete(@, src)],
                                p, srcs, i + 1)
            ELSE forwardAcks(c, p, srcs, i + 1)

\* stateMachine.processPacketType, for each iteration order of s.pingReqs.
processPacketType(c, p) ==
    IF p.Type = "ping" THEN {makeAck(c, p.remoteID)}
    ELSE IF p.Type = "pingReq"
    THEN {makePing([c EXCEPT !.s.pingReqs = MapPut(@, p.remoteID, p.TargetID)], p.TargetID)}
    ELSE IF p.Type = "ack"
    THEN LET c1 == IF p.remoteID = c.s.pingTarget \/ p.TargetID = c.s.pingTarget
                   THEN [c EXCEPT !.s.gotAck = TRUE]
                   ELSE c
         IN {forwardAcks(c1, p, srcs, 1) : srcs \in Perms(DOMAIN c1.s.pingReqs)}
    ELSE {c}

\* The message loop of stateMachine.receive from message i on: a message
\* with the zero address gets the packet's source address; the loop stops
\* at the first message that processMsg reports as terminal.
RECURSIVE receiveMsgs(_, _, _)
receiveMsgs(c, p, i) ==
    IF i > Len(p.Msgs) \/ ~c.ok THEN {c}
    ELSE LET m0 == p.Msgs[i]
             m == IF m0.Addr = NoAddr THEN [m0 EXCEPT !.Addr = p.remoteAddr] ELSE m0
         IN UNION {receiveMsgs(c1, p, i + 1) : c1 \in processMsg(c, m)}

\* receive without the check of the sender against s.removed.
receiveFromRemoved(c, p) ==
    UNION {IF c1.ok THEN processPacketType(c1, p) ELSE {c1} : c1 \in receiveMsgs(c, p, 1)}

\* receive answering the packet type even after a terminal message.
receiveAcksTerminal(c, p) ==
    IF p.remoteID \in c.s.removed THEN {c}
    ELSE UNION {processPacketType(c1, p) : c1 \in receiveMsgs(c, p, 1)}

\* stateMachine.receive: a packet from a removed id is dropped; a terminal
\* message ends the operation without packets (c.ok = FALSE).
receive(c, p) ==
    IF p.remoteID \in c.s.removed THEN {c}
    ELSE UNION {IF c1.ok THEN processPacketType(c1, p) ELSE {c1} : c1 \in receiveMsgs(c, p, 1)}

\* addMemo that does not record the memo id as seen.
addMemoNotSeen(c, memoID, b) ==
    [c EXCEPT !.s.memoQueue = Upsert(@, memoID, Message("memo", c.s.id, NoAddr, 0, memoID, b))]

\* stateMachine.addMemo with randID() = memoID.
addMemo(c, memoID, b) ==
    [c EXCEPT !.s.memoQueue = Upsert(@, memoID, Message("memo", c.s.id, NoAddr, 0, memoID, b)),
              !.s.seenMemos = @ \cup {memoID}]

\* PostMemo without the length limit.
postMemoAnyLength(c, memoID, b) == [err |-> "", c |-> addMemo(c, memoID, b)]

\* Node.PostMemo with randID() = memoID: the error and the state machine.
postMemo(c, memoID, b) ==
    IF BodyLen(b) > MaxBodyLen
    THEN [err |-> "body too long", c |-> c]
    ELSE [err |-> "", c |-> addMemo(c, memoID, b)]

\* supersedes(a, b): whether message a supersedes message b; NilMsg is nil.
supersedes(a, b) ==
    IF a = NilMsg THEN FALSE
    ELSE IF b = NilMsg THEN TRUE
    ELSE IF a.NodeID # b.NodeID THEN FALSE
    ELSE IF b.Type = "failed" THEN FALSE
    ELSE IF a.Type = "failed" THEN TRUE
    ELSE IF a.Incarnation = b.Incarnation THEN a.Type = "suspected" /\ b.Type = "alive"
    ELSE a.Incarnation > b.Incarnation

\* ------------------------------------------------------------------- node

\* The ids a remote peer can name: the peers and the local node.
AllIDs == Peers \cup {Self}

\* The membership messages a remote peer can send; a Failed message carries
\* no incarnation.
InMemberMsgs ==
    UNION {{Message(typ, id, AddrOf(id), inc, NoID, "") :
               typ \in {"alive", "suspected"}, inc \in 0..MaxInc}
           \cup {Message("failed", id, AddrOf(id), 0, NoID, "")} :
           id \in AllIDs}

\* The memo messages a remote peer can send.
InMemoMsgs ==
    {Message("memo", id, NoAddr, 0, mid, "hi") : id \in Peers, mid \in RemoteMemoIDs}

\* The messages a remote peer can send.
InMsgs == InMemberMsgs \cup InMemoMsgs

\* The message lists of a received packet.
InMsgLists == UNION {{SeqOf(f, n) : f \in [1..n -> InMsgs]} : n \in 0..MaxPktMsgs}

\* A packet as runReceive fills it in: remoteID from the envelope, the
\* addresses those of the ids.
Pk(typ, src, tgt, msgs) ==
    Packet(typ, src, AddrOf(src), tgt, IF tgt = NoID THEN NoAddr ELSE AddrOf(tgt), msgs)

\* The packets the socket delivers to the membership engine: pings that
\* are bare, introduce their sender or announce a failure; acks with any
\* message list; forwarded acks; ping requests naming any other id; and bare
\* packets that claim the local id as their sender.
InPackets ==
    UNION {{Pk("ping", src, NoID, msgs) :
               msgs \in {<<>>,
                         <<Message("alive", src, NoAddr, 0, NoID, "")>>,
                         <<Message("failed", src, AddrOf(src), 0, NoID, "")>>,
                         <<Message("failed", Self, AddrOf(Self), 0, NoID, "")>>}}
           \cup {Pk("ack", src, NoID, msgs) : msgs \in InMsgLists}
           \cup {Pk("ack", src, tgt, <<>>) : tgt \in Peers \ {src}}
           \cup {Pk("pingReq", src, tgt, <<>>) : tgt \in AllIDs \ {src}} :
           src \in Peers}
    \cup {Pk(typ, Self, NoID, <<>>) : typ \in {"ping", "ack"}}

\* One memo of a peer, or two of them in one packet.
MemoLists ==
    UNION {{<<Message("memo", id, NoAddr, 0, "m1", "hi")>>,
            <<Message("memo", id, NoAddr, 0, "m1", "hi"), Message("memo", id, NoAddr, 0, "m2", "hi")>>} :
           id \in Peers}

\* The packets of the handler scenarios: a ping that introduces its sender,
\* acks that carry memos of any peer or the failure of any id.
NodePackets ==
    UNION {{Pk("ping", src, NoID, <<Message("alive", src, NoAddr, 0, NoID, "")>>)}
           \cup {Pk("ack", src, NoID, ms) : ms \in MemoLists}
           \cup {Pk("ack", src, NoID, <<Message("failed", id, AddrOf(id), 0, NoID, "")>>) :
                    id \in AllIDs} :
           src \in Peers}

NoPacket == Packet("none", NoID, NoAddr, NoID, NoAddr, <<>>)

\* The keys and values of the Queue on its own; a value names its key.
QueueKeys == {"k1", "k2"}

QueueValues == {"x", "y"}

VARIABLES
    fsm,        \* the stateMachine (Node.fsm)
    out,        \* the packets the last engine operation returned
    events,     \* the Updates and Memos the last engine operation emitted
    last,       \* the last operation and the packet it received
    pingTimer,  \* whether pingTimer is armed
    stopTick,   \* whether stopTick is closed (runReceive has returned)
    tickDone,   \* whether runTick has returned
    crashed,    \* whether the process has panicked
    nRecv,      \* the number of packets received so far
    nTick,      \* the number of protocol periods begun so far
    joins,      \* per id, the number of join Updates emitted so far
    fails,      \* per id, the number of fail Updates emitted so far
    memoEv,     \* per memo id, the number of Memos emitted so far
    wgs,        \* the keys of the map wgs of Start
    joinH,      \* per id, where the goroutine of its join handler is
    memoH,      \* per id, how many memo goroutines wait, run and have returned
    failH,      \* per id, where the goroutine of its fail handler is
    closedCh,   \* the event channels ("updates", "memos") whose send end is closed
    rq,         \* a Queue of package rpq on its own
    rqQuota,    \* what its quota function returns; 0 before New
    rqRet,      \* per key, how often its value was returned since its last Upsert
    rqLive,     \* the keys upserted and not removed by Remove since
    rqOp,       \* the last operation on the Queue and what it returned
    ord,        \* an Order of package roundrobinrandom on its own
    ordCount,   \* per element, how often Next returned it in the current round
    ordWhole,   \* the elements that are in the Order since the round began
    ordSkip,    \* the elements added among the visited ones in the current round
    ordChurn,   \* whether an element was added or removed in the current round
    ordRun,     \* what Next returned since the last Add or Remove, newest last
    ordOp,      \* the last operation on the Order
    bcPending,  \* a Chan on its own: the value its producer is sending on in
    bcInClosed, \* whether in, its send endpoint, is closed
    bcBuf,      \* buf of its goroutine
    bcPc,       \* where its goroutine is: "loop", "drain" or "done"
    bcOutClosed,\* whether out, its receive endpoint, is closed
    bcSent,     \* the values whose send has completed, oldest first
    bcRecv,     \* the values the consumer has received, oldest first
    bcSawClose, \* whether the consumer has seen the Chan closed
    \* Three nodes on one network.
    cfsm,       \* per node, its stateMachine
    cnet,       \* the bag of datagrams in flight
    ctimer,     \* per node, whether its pingTimer is running and gotAck is unset
    cdown,      \* per node, "up", or why its loops no longer run
    cwgs,       \* per node, the keys of wgs
    cjoined,    \* per node, the ids of the join events it emitted
    cfailed,    \* per node, the ids of the fail events it emitted
    cmemos,     \* per node, source and body of the memo events it emitted
    cphase,     \* which of the two Join calls were made
    cposted,    \* whether the memo was posted
    cread,      \* the parity of the number of datagrams the network handed over
    \* The peers' answers to the node's pings.
    replies,    \* the acks in flight: who sent it, and in answer to the ping of which period
    fresh       \* whether an ack came in that answers a ping sent to the ping target in this period

queueVars == <<rq, rqQuota, rqRet, rqLive, rqOp>>

nodeVars == <<fsm, out, events, last, pingTimer, stopTick, tickDone, crashed, nRecv, nTick,
              joins, fails, memoEv, wgs, joinH, memoH, failH, closedCh>>

orderVars == <<ord, ordCount, ordWhole, ordSkip, ordChurn, ordRun, ordOp>>

\* The variables of the components on their own; what each of them leaves
\* unchanged.
chanVars == <<bcPending, bcInClosed, bcBuf, bcPc, bcOutClosed, bcSent, bcRecv, bcSawClose>>

clusterVars == <<cfsm, cnet, ctimer, cdown, cwgs, cjoined, cfailed, cmemos, cphase, cposted,
                 cread>>

ackVars == <<replies, fresh>>

otherVars == <<queueVars, orderVars, chanVars, clusterVars>>

benchVars == <<otherVars, ackVars>>

notQueueVars == <<nodeVars, orderVars, chanVars, clusterVars, ackVars>>

notOrderVars == <<nodeVars, queueVars, chanVars, clusterVars, ackVars>>

notChanVars == <<nodeVars, queueVars, orderVars, clusterVars, ackVars>>

notClusterVars == <<nodeVars, queueVars, orderVars, chanVars, ackVars>>

vars == <<nodeVars, benchVars>>

engineVars == <<fsm, out, events, last, crashed, joins, fails, memoEv>>
handlerVars == <<wgs, joinH, memoH, failH>>

\* The number of events of a kind about id in a list of events.
\* The values sent on the Chan on its own; NoValue: no send is pending.
ChanValues == {"u", "v"}

NoValue == ""

\* A Chan whose buf holds one value at most.
inReadyBelowOne(buf, pending) == pending # NoValue /\ Len(buf) < 1

\* Whether the goroutine of the Chan can take a value from in: a send is
\* pending, whatever the length of buf (the blocking receive when buf is
\* empty, the first case of the select otherwise).
inReady(buf, pending) == pending # NoValue

\* buf = append(buf, t)
chanAccept(buf, t) == Append(buf, t)

\* A send of the newest value of buf instead of the oldest.
chanDeliverNewest(buf) == [t |-> buf[Len(buf)], buf |-> SubSeq(buf, 1, Len(buf) - 1)]

\* out <- buf[0]; buf = buf[1:]
chanDeliver(buf) == [t |-> Head(buf), buf |-> Tail(buf)]

\* The elements of the Order on its own.
OrderElems == {"e1", "e2", "e3"}

\* An operation on the Order: the element it added, removed or returned,
\* whether Next shuffled and, if so, whether the round it ended saw an Add
\* or a Remove and how many elements were in the Order throughout it.
OrderOp(op, t, shuffled, churned, whole) ==
    [op |-> op, t |-> t, shuffled |-> shuffled, churned |-> churned, whole |-> whole]

\* An operation on the Queue with its arguments; n is the argument of New
\* and of PopN and, for Upsert, the number of items before the call.
QueueOp(op, key, value, n) == [op |-> op, key |-> key, value |-> value, n |-> n]

CountEv(es, kind, id) == Cardinality({i \in DOMAIN es : es[i].kind = kind /\ es[i].id = id})

NoMemoH == [wait |-> 0, run |-> 0, done |-> 0]

\* The handler bookkeeping as one value.
Handlers(w, j, m, f) == [wgs |-> w, joinH |-> j, memoH |-> m, failH |-> f, panic |-> FALSE]

\* The join callback: a fresh pair of WaitGroups under wgs[id], join.Add(1)
\* and the goroutine of the join handler.
joinCallback(h, id) ==
    [h EXCEPT !.wgs = @ \cup {id},
              !.joinH = MapPut(@, id, "spawned"),
              !.memoH = MapPut(@, id, NoMemoH)]

\* The memo callback: memo.Add(1) on wgs[id], a nil pointer when id has no
\* entry, and the goroutine of the memo handler.
memoCallback(h, id) ==
    IF id \notin h.wgs THEN [h EXCEPT !.panic = TRUE]
    ELSE [h EXCEPT !.memoH = MapPut(@, id, [wait |-> h.memoH[id].wait + 1,
                                            run |-> h.memoH[id].run,
                                            done |-> h.memoH[id].done])]

\* The fail callback: the entry leaves wgs and the goroutine of the fail
\* handler waits on its memo WaitGroup, a nil pointer when id had no entry.
failCallback(h, id) ==
    IF id \notin h.wgs THEN [h EXCEPT !.panic = TRUE]
    ELSE [h EXCEPT !.wgs = @ \ {id}, !.failH = MapPut(@, id, "spawned")]

\* The engine calls the callback of each event where it emits it.
RECURSIVE Dispatch(_, _)
Dispatch(h, es) ==
    IF es = <<>> \/ h.panic THEN h
    ELSE LET e == Head(es)
             h1 == IF e.kind = "join" THEN joinCallback(h, e.id)
                   ELSE IF e.kind = "memo" THEN memoCallback(h, e.id)
                   ELSE failCallback(h, e.id)
         IN  Dispatch(h1, Tail(es))

\* wg.join.Wait() returns: the join handler of id has returned.
joinWaitDone(id) == joinH[id] = "done"

\* The fail goroutine without wg.memo.Wait().
memoWaitSkipped(id) == TRUE

\* wg.memo.Wait() returns: every memo goroutine of id has returned.
memoWaitDone(id) == memoH[id].wait + memoH[id].run = 0

Init ==
    /\ fsm = newStateMachine
    /\ out = <<>>
    /\ events = <<>>
    /\ last = [op |-> "start", p |-> NoPacket]
    /\ pingTimer = FALSE
    /\ stopTick = FALSE
    /\ tickDone = FALSE
    /\ crashed = FALSE
    /\ nRecv = 0
    /\ nTick = 0
    /\ joins = [i \in AllIDs |-> 0]
    /\ fails = [i \in AllIDs |-> 0]
    /\ memoEv = [m \in AllMemoIDs |-> 0]
    /\ wgs = {}
    /\ joinH = [i \in AllIDs |-> "none"]
    /\ memoH = [i \in AllIDs |-> NoMemoH]
    /\ failH = [i \in AllIDs |-> "none"]
    /\ closedCh = {}
    /\ rq = makePriorityQueue
    /\ rqQuota = 0
    /\ rqRet = [k \in QueueKeys |-> 0]
    /\ rqLive = {}
    /\ rqOp = QueueOp("none", NoID, "", 0)
    /\ ord = NewOrder
    /\ ordCount = [e \in OrderElems |-> 0]
    /\ ordWhole = {}
    /\ ordSkip = {}
    /\ ordChurn = FALSE
    /\ ordRun = <<>>
    /\ ordOp = OrderOp("none", NoID, FALSE, FALSE, 0)
    /\ bcPending = NoValue
    /\ bcInClosed = FALSE
    /\ bcBuf = <<>>
    /\ bcPc = "loop"
    /\ bcOutClosed = FALSE
    /\ bcSent = <<>>
    /\ bcRecv = <<>>
    /\ bcSawClose = FALSE
    /\ cfsm = [i \in AllIDs |-> [newStateMachine EXCEPT !.id = i]]
    /\ cnet = EmptyBag
    /\ ctimer = [i \in AllIDs |-> FALSE]
    /\ cdown = [i \in AllIDs |-> "up"]
    /\ cwgs = [i \in AllIDs |-> {}]
    /\ cjoined = [i \in AllIDs |-> {}]
    /\ cfailed = [i \in AllIDs |-> {}]
    /\ cmemos = [i \in AllIDs |-> {}]
    /\ cphase = "start"
    /\ cposted = FALSE
    /\ cread = 0
    /\ replies = {}
    /\ fresh = FALSE

\* The outcome c of an engine operation becomes the node's state, its events
\* having gone through the callbacks.
Finish(c, op, p) ==
    LET h == Dispatch(Handlers(wgs, joinH, memoH, failH), c.ev)
    IN  /\ fsm' = c.s
        /\ out' = c.ps
        /\ events' = c.ev
        /\ last' = [op |-> op, p |-> p]
        /\ crashed' = (c.panic \/ h.panic)
        /\ joins' = [i \in AllIDs |-> joins[i] + CountEv(c.ev, "join", i)]
        /\ fails' = [i \in AllIDs |-> fails[i] + CountEv(c.ev, "fail", i)]
        /\ memoEv' = [m \in AllMemoIDs |->
                        memoEv[m] + Cardinality({i \in DOMAIN c.ev :
                                                   c.ev[i].kind = "memo" /\ c.ev[i].memo = m})]
        /\ wgs' = h.wgs
        /\ joinH' = h.joinH
        /\ memoH' = h.memoH
        /\ failH' = h.failH

\* runTick, case <-periodTimer.C: Node.tick under the mutex; arms pingTimer.
TickOp(maxTicks) ==
    /\ ~crashed /\ ~tickDone /\ nTick < maxTicks
    /\ \E c \in tick(Ctx(fsm)) : Finish(c, "tick", NoPacket)
    /\ pingTimer' = TRUE
    /\ nTick' = nTick + 1
    /\ UNCHANGED <<stopTick, tickDone, nRecv, closedCh, benchVars>>

\* runTick, case <-pingTimer.C: Node.timeout under the mutex.
Timeout ==
    /\ ~crashed /\ ~tickDone /\ pingTimer
    /\ \E c \in timeout(Ctx(fsm)) : Finish(c, "timeout", NoPacket)
    /\ pingTimer' = FALSE
    /\ UNCHANGED <<stopTick, tickDone, nRecv, nTick, closedCh, benchVars>>

\* runTick, case <-n.stopTick: runTick returns and its deferred call closes
\* the send end of the Updates channel; nothing closes that of the Memos
\* channel.
TickExit ==
    /\ ~crashed /\ stopTick /\ ~tickDone
    /\ tickDone' = TRUE
    /\ closedCh' = closedCh \cup {"updates"}
    /\ UNCHANGED <<engineVars, handlerVars, pingTimer, stopTick, nRecv, nTick, benchVars>>

\* runReceive: one datagram read and handed to Node.receive under the
\* mutex; the loop returns, closing stopTick, when receive reports false.
ReceiveOp(packets, maxRecv) ==
    /\ ~crashed /\ ~stopTick /\ nRecv < maxRecv
    /\ \E p \in packets : \E c \in receive(Ctx(fsm), p) :
          /\ Finish(c, "receive", p)
          /\ stopTick' = ~c.ok
    /\ nRecv' = nRecv + 1
    /\ UNCHANGED <<pingTimer, tickDone, nTick, closedCh, benchVars>>

\* Node.PostMemo with a body within the limit.
PostMemo ==
    /\ ~crashed
    /\ \E mid \in LocalMemoIDs \ fsm.seenMemos :
          Finish(addMemo(Ctx(fsm), mid, "yo"), "postMemo", NoPacket)
    /\ UNCHANGED <<pingTimer, stopTick, tickDone, nRecv, nTick, closedCh, benchVars>>

\* Node.PostMemo with any body; last.op tells whether it returned an error.
PostMemoAny ==
    /\ ~crashed
    /\ \E mid \in LocalMemoIDs \ fsm.seenMemos : \E b \in Bodies :
          LET r == postMemo(Ctx(fsm), mid, b)
          IN Finish(r.c, IF r.err = "" THEN "postMemo" ELSE "postMemoError", NoPacket)
    /\ UNCHANGED <<pingTimer, stopTick, tickDone, nRecv, nTick, closedCh, benchVars>>

\* The goroutine of the join handler of id calls n.handleJoin.
JoinStart(id) ==
    /\ ~crashed /\ joinH[id] = "spawned"
    /\ joinH' = MapPut(joinH, id, "running")
    /\ UNCHANGED <<engineVars, pingTimer, stopTick, tickDone, nRecv, nTick, wgs, memoH, failH, closedCh, benchVars>>

\* n.handleJoin returns and the deferred wg.join.Done() runs.
JoinReturn(id) ==
    /\ ~crashed /\ joinH[id] = "running"
    /\ joinH' = MapPut(joinH, id, "done")
    /\ UNCHANGED <<engineVars, pingTimer, stopTick, tickDone, nRecv, nTick, wgs, memoH, failH, closedCh, benchVars>>

\* A memo goroutine of id is past wg.join.Wait() and calls n.handleMemo.
MemoStart(id) ==
    /\ ~crashed /\ memoH[id].wait > 0 /\ joinWaitDone(id)
    /\ memoH' = MapPut(memoH, id, [wait |-> memoH[id].wait - 1,
                                   run |-> memoH[id].run + 1,
                                   done |-> memoH[id].done])
    /\ UNCHANGED <<engineVars, pingTimer, stopTick, tickDone, nRecv, nTick, wgs, joinH, failH, closedCh, benchVars>>

\* n.handleMemo returns and the deferred wg.memo.Done() runs.
MemoReturn(id) ==
    /\ ~crashed /\ memoH[id].run > 0
    /\ memoH' = MapPut(memoH, id, [wait |-> memoH[id].wait,
                                   run |-> memoH[id].run - 1,
                                   done |-> memoH[id].done + 1])
    /\ UNCHANGED <<engineVars, pingTimer, stopTick, tickDone, nRecv, nTick, wgs, joinH, failH, closedCh, benchVars>>

\* The fail goroutine of id is past wg.memo.Wait() and calls n.handleFail.
FailStart(id) ==
    /\ ~crashed /\ failH[id] = "spawned" /\ memoWaitDone(id)
    /\ failH' = MapPut(failH, id, "running")
    /\ UNCHANGED <<engineVars, pingTimer, stopTick, tickDone, nRecv, nTick, wgs, joinH, memoH, closedCh, benchVars>>

\* n.handleFail returns.
FailReturn(id) ==
    /\ ~crashed /\ failH[id] = "running"
    /\ failH' = MapPut(failH, id, "done")
    /\ UNCHANGED <<engineVars, pingTimer, stopTick, tickDone, nRecv, nTick, wgs, joinH, memoH, closedCh, benchVars>>

Tick == TickOp(MaxTicks)

Receive == ReceiveOp(InPackets, MaxRecv)

\* The membership engine under its two loops and PostMemo.
Next == Tick \/ Timeout \/ TickExit \/ Receive \/ PostMemo

Spec == Init /\ [][Next]_vars

NodeTick == TickOp(MaxNodeTicks)

NodeReceive == ReceiveOp(NodePackets, MaxNodeRecv)

HandlerStep ==
    \E id \in Peers :
        \/ JoinStart(id) \/ JoinReturn(id)
        \/ MemoStart(id) \/ MemoReturn(id)
        \/ FailStart(id) \/ FailReturn(id)

\* The node with its handler goroutines.
NextNode == NodeTick \/ Timeout \/ TickExit \/ NodeReceive \/ PostMemo \/ HandlerStep

SpecNode == Init /\ [][NextNode]_vars

\* The packets of the memo scenarios: a ping that introduces its sender and
\* acks that carry one memo of any id, the local one included, said to come
\* from any node.
MemoPackets ==
    UNION {{Pk("ping", src, NoID, <<Message("alive", src, NoAddr, 0, NoID, "")>>)}
           \cup {Pk("ack", src, NoID, <<Message("memo", id, NoAddr, 0, mid, "hi")>>) :
                    id \in AllIDs, mid \in {"m0", "m1"}} :
           src \in Peers}

MemoReceive == ReceiveOp(MemoPackets, MaxMemoRecv)

\* The node that posts memos and receives them.
NextMemo == NodeTick \/ Timeout \/ MemoReceive \/ PostMemoAny

SpecMemo == Init /\ [][NextMemo]_vars

\* The packets of the suspicion scenarios: acks that carry one membership
\* message about a peer.
SuspectPackets ==
    {Pk("ack", src, NoID, <<m>>) :
        src \in Peers, m \in {x \in InMemberMsgs : x.NodeID \in Peers}}

SuspectReceive == ReceiveOp(SuspectPackets, MaxSuspectRecv)

\* The node that hears about its peers while its periods pass.
NextSuspect == Tick \/ Timeout \/ SuspectReceive

SpecSuspect == Init /\ [][NextSuspect]_vars

\* The ids of a larger group.
GroupNames == <<"p1", "p2", "p3", "p4", "p5", "p6">>

GroupIDs == {GroupNames[i] : i \in 1..Min(MaxGroup, Len(GroupNames))}

\* The news of the group scenarios: two memos of the first of the group and
\* the failures of the ids beyond the group.
GroupNews ==
    LET n == Cardinality(GroupIDs)
        k == Len(GroupNames) - n
    IN <<Message("memo", GroupNames[1], NoAddr, 0, "m1", "hi"),
         Message("memo", GroupNames[1], NoAddr, 0, "m2", "hi")>>
       \o SeqOf([i \in 1..k |-> Message("failed", GroupNames[n + i], AddrOf(GroupNames[n + i]),
                                         0, NoID, "")], k)

\* The packets of the group scenarios: an ack of the first of the group
\* whose messages are Alive messages about the first k of the group, and
\* one that carries the news.
GroupPackets ==
    {Pk("ack", GroupNames[1], NoID,
        SeqOf([i \in 1..k |-> Message("alive", GroupNames[i], AddrOf(GroupNames[i]), 0, NoID, "")], k)) :
        k \in 0..Cardinality(GroupIDs)}
    \cup {Pk("ack", GroupNames[1], NoID, GroupNews)}

GroupReceive == ReceiveOp(GroupPackets, MaxGroupRecv)

GroupTick == TickOp(MaxGroupTicks)

\* The node that learns of a group and probes it.
NextGroup == GroupReceive \/ GroupTick \/ Timeout

SpecGroup == Init /\ [][NextGroup]_vars

\* A peer introduces itself with a ping.
AckIntro ==
    /\ nTick = 0
    /\ ReceiveOp({Pk("ping", src, NoID, <<Message("alive", src, NoAddr, 0, NoID, "")>>) :
                    src \in Peers}, MaxAckIntros)

\* Node.tick; each peer that is sent a ping answers it with an ack, which
\* is in flight from then on.
AckTick ==
    /\ ~crashed /\ ~tickDone /\ nTick < MaxAckTicks
    /\ \E c \in tick(Ctx(fsm)) :
          /\ Finish(c, "tick", NoPacket)
          /\ replies' = replies \cup {[src |-> c.ps[i].remoteID, period |-> nTick + 1] :
                                         i \in {j \in DOMAIN c.ps : c.ps[j].Type = "ping"}}
    /\ fresh' = FALSE
    /\ pingTimer' = TRUE
    /\ nTick' = nTick + 1
    /\ UNCHANGED <<stopTick, tickDone, nRecv, closedCh, otherVars>>

\* runReceive reads an ack that is in flight, whenever the network hands it
\* over, and Node.receive processes it.
AckArrive ==
    /\ ~crashed /\ ~stopTick
    /\ \E e \in replies :
          LET p == Pk("ack", e.src, NoID, <<>>)
          IN /\ \E c \in receive(Ctx(fsm), p) :
                   /\ Finish(c, "receive", p)
                   /\ stopTick' = ~c.ok
             /\ replies' = replies \ {e}
             /\ fresh' = (fresh \/ (e.period = nTick /\ e.src = fsm.pingTarget))
    /\ nRecv' = nRecv + 1
    /\ UNCHANGED <<pingTimer, tickDone, nTick, closedCh, otherVars>>

\* The node whose peers answer its pings after any delay.
NextAck == AckIntro \/ AckTick \/ Timeout \/ AckArrive

SpecAck == Init /\ [][NextAck]_vars

\* runReceive, ReadFromUDPAddrPort fails because the socket was closed: the
\* loop returns and its deferred call closes stopTick.
SocketClose ==
    /\ ~crashed /\ ~stopTick
    /\ stopTick' = TRUE
    /\ UNCHANGED <<engineVars, handlerVars, pingTimer, tickDone, nRecv, nTick, closedCh, benchVars>>

\* The two loops of the node until they have returned.
NextShutdown == NodeTick \/ Timeout \/ TickExit \/ NodeReceive \/ SocketClose

\* The select statement of runTick chooses at random among its ready cases
\* and the closed stopTick stays ready, so the stopTick case is taken in the
\* end.
SpecShutdown == Init /\ [][NextShutdown]_vars /\ WF_vars(TickExit)

\* rpq.New with a quota function that returns the constant quota.
QueueNew ==
    /\ rqQuota = 0
    /\ \E quota \in 1..MaxQuota :
          /\ rqQuota' = quota
          /\ rqOp' = QueueOp("New", NoID, "", quota)
    /\ rq' = makePriorityQueue
    /\ UNCHANGED <<notQueueVars, rqRet, rqLive>>

\* rqRet after a fresh value for key; the zero key has no entry.
RetZero(key) == [k \in QueueKeys |-> IF k = key THEN 0 ELSE rqRet[k]]

\* rqRet after one more return of the values of the keys ks.
RetNext(ks) == [k \in QueueKeys |-> IF k \in ks THEN rqRet[k] + 1 ELSE rqRet[k]]

\* Whether the Queue may be popped within the bound on the counts.
PopBounded == \A i \in DOMAIN rq.items : rq.items[i].count <= MaxCount

\* Queue.Push(key, value), the Upsert of the state machine; the items of
\* the zero key all get the same value.
QueueUpsert ==
    /\ rqQuota > 0
    /\ \E key \in QueueKeys \cup {NoID}, value \in QueueValues :
          /\ key = NoID => value = "x"
          /\ key \in DOMAIN rq.index \/ QLen(rq) < MaxQueueLen
          /\ rq' = Upsert(rq, key, value)
          /\ rqRet' = RetZero(key)
          /\ rqLive' = (rqLive \cup {key}) \ {NoID}
          /\ rqOp' = QueueOp("Upsert", key, value, QLen(rq))
    /\ UNCHANGED <<notQueueVars, rqQuota>>

\* Queue.Pop on a Queue that is not empty.
QueuePop ==
    /\ rqQuota > 0 /\ QLen(rq) > 0 /\ PopBounded
    /\ rq' = QPop(rq, rqQuota).q
    /\ rqRet' = RetNext({rq.items[1].key})
    /\ rqOp' = QueueOp("Pop", rq.items[1].key, QPop(rq, rqQuota).value, 1)
    /\ UNCHANGED <<notQueueVars, rqQuota, rqLive>>

\* Queue.PopN(n)
QueuePopN ==
    /\ rqQuota > 0 /\ PopBounded
    /\ \E n \in 0..MaxQueueLen :
          /\ rq' = PopN(rq, n, rqQuota).q
          /\ rqRet' = RetNext({rq.items[i].key : i \in 1..Min(n, QLen(rq))})
          /\ rqOp' = QueueOp("PopN", NoID, "", n)
    /\ UNCHANGED <<notQueueVars, rqQuota, rqLive>>

\* Queue.Remove(key)
QueueRemove ==
    /\ rqQuota > 0
    /\ \E key \in QueueKeys \cup {NoID} :
          /\ rq' = QRemove(rq, key)
          /\ rqLive' = rqLive \ {key}
          /\ rqOp' = QueueOp("Remove", key, "", 0)
    /\ UNCHANGED <<notQueueVars, rqQuota, rqRet>>

\* A Queue on its own under any sequence of its operations.
NextQueue == QueueNew \/ QueueUpsert \/ QueuePop \/ QueuePopN \/ QueueRemove

SpecQueue == Init /\ [][NextQueue]_vars

\* The last n values of the sequence s, or all of them.
LastN(s, n) == IF Len(s) <= n THEN s ELSE SubSeq(s, Len(s) - n + 1, Len(s))

\* Order.Next on an Order that is not empty.
OrderNextStep ==
    /\ Len(ord.a) > 0
    /\ \E r \in OrderNext(ord) :
          LET shuffled == ord.next = Len(ord.a)
          IN /\ ord' = r.o
             /\ ordCount' = [e \in OrderElems |->
                               (IF shuffled THEN 0 ELSE ordCount[e]) + (IF e = r.t THEN 1 ELSE 0)]
             /\ ordWhole' = IF shuffled THEN Range(ord.a) ELSE ordWhole
             /\ ordSkip' = IF shuffled THEN {} ELSE ordSkip
             /\ ordChurn' = IF shuffled THEN FALSE ELSE ordChurn
             /\ ordRun' = LastN(Append(ordRun, r.t), 2 * Cardinality(OrderElems))
             /\ ordOp' = OrderOp("Next", r.t, shuffled, shuffled /\ ordChurn,
                                 IF shuffled THEN Cardinality(ordWhole) ELSE 0)
    /\ UNCHANGED notOrderVars

\* Order.Add(t) of an element that is not in the Order, at any index that
\* rand.Intn can return.
OrderAddStep ==
    /\ \E t \in OrderElems \ Range(ord.a) : \E k \in 0..Len(ord.a) :
          /\ ord' = addAt(ord, t, k)
          /\ ordCount' = [e \in OrderElems |-> IF e = t THEN 0 ELSE ordCount[e]]
          /\ ordSkip' = IF k < ord.next THEN ordSkip \cup {t} ELSE ordSkip
          /\ ordOp' = OrderOp("Add", t, FALSE, FALSE, 0)
    /\ ordChurn' = TRUE
    /\ ordRun' = <<>>
    /\ UNCHANGED <<notOrderVars, ordWhole>>

\* Order.Remove(t)
OrderRemoveStep ==
    /\ \E t \in OrderElems :
          /\ ord' = OrderRemove(ord, t)
          /\ ordWhole' = ordWhole \ {t}
          /\ ordSkip' = ordSkip \ {t}
          /\ ordOp' = OrderOp("Remove", t, FALSE, FALSE, 0)
    /\ ordChurn' = TRUE
    /\ ordRun' = <<>>
    /\ UNCHANGED <<notOrderVars, ordCount>>

\* An Order on its own under any sequence of its operations.
NextOrder == OrderNextStep \/ OrderAddStep \/ OrderRemoveStep

SpecOrder == Init /\ [][NextOrder]_vars

\* The producer begins ch.Send() <- v; in is unbuffered, so the send is
\* pending until the goroutine of the Chan takes the value.
ChanSend ==
    /\ bcPending = NoValue /\ ~bcInClosed
    /\ Len(bcSent) < MaxSends
    /\ \E v \in ChanValues : bcPending' = v
    /\ UNCHANGED <<notChanVars, bcInClosed, bcBuf, bcPc, bcOutClosed, bcSent, bcRecv, bcSawClose>>

\* The producer closes the send endpoint.
ChanClose ==
    /\ bcPending = NoValue /\ ~bcInClosed
    /\ bcInClosed' = TRUE
    /\ UNCHANGED <<notChanVars, bcPending, bcBuf, bcPc, bcOutClosed, bcSent, bcRecv, bcSawClose>>

\* The goroutine takes the pending value from in and appends it to buf.
BufAccept ==
    /\ bcPc = "loop" /\ inReady(bcBuf, bcPending)
    /\ bcBuf' = chanAccept(bcBuf, bcPending)
    /\ bcSent' = Append(bcSent, bcPending)
    /\ bcPending' = NoValue
    /\ UNCHANGED <<notChanVars, bcInClosed, bcPc, bcOutClosed, bcRecv, bcSawClose>>

\* With buf empty the receive from the closed in reports !ok and the break
\* leaves the for loop. With buf not empty the same report only leaves the
\* select, and the loop goes round.
BufBreak ==
    /\ bcPc = "loop" /\ bcInClosed /\ bcBuf = <<>>
    /\ bcPc' = "drain"
    /\ UNCHANGED <<notChanVars, bcPending, bcInClosed, bcBuf, bcOutClosed, bcSent, bcRecv, bcSawClose>>

\* out <- buf[0], in the select or in the loop after it, meets a receive of
\* the consumer.
BufDeliver ==
    /\ bcPc \in {"loop", "drain"} /\ bcBuf # <<>>
    /\ bcRecv' = Append(bcRecv, chanDeliver(bcBuf).t)
    /\ bcBuf' = chanDeliver(bcBuf).buf
    /\ UNCHANGED <<notChanVars, bcPending, bcInClosed, bcPc, bcOutClosed, bcSent, bcSawClose>>

\* The goroutine returns and its deferred call closes out.
BufReturn ==
    /\ bcPc = "drain" /\ bcBuf = <<>>
    /\ bcPc' = "done"
    /\ bcOutClosed' = TRUE
    /\ UNCHANGED <<notChanVars, bcPending, bcInClosed, bcBuf, bcSent, bcRecv, bcSawClose>>

\* A receive of the consumer on the closed out yields ok = false.
ChanSeeClose ==
    /\ bcOutClosed /\ ~bcSawClose
    /\ bcSawClose' = TRUE
    /\ UNCHANGED <<notChanVars, bcPending, bcInClosed, bcBuf, bcPc, bcOutClosed, bcSent, bcRecv>>

\* A Chan with one producer and one consumer.
NextChan ==
    ChanSend \/ ChanClose \/ BufAccept \/ BufBreak \/ BufDeliver \/ BufReturn \/ ChanSeeClose

\* The goroutine of the Chan is scheduled fairly, and a select whose first
\* case stays ready takes it in the end; the consumer need not receive.
SpecChan == Init /\ [][NextChan]_vars /\ WF_vars(BufAccept)

\* ---------------------------------------------------------------- cluster

\* The three nodes of the scenarios of swim_test.go: nodes[0], nodes[1] and
\* nodes[2].
NodeA == Self
NodeB == "a"
NodeC == "b"

\* A datagram: the envelope with the sender's id and the packet without its
\* unexported fields, on its way to the address to.
Envelope(src, to, p) ==
    [src |-> src, to |-> to, p |-> [p EXCEPT !.remoteID = NoID, !.remoteAddr = NoAddr]]

\* Node.send from packet k of ps on: each packet is written to its
\* remoteAddr.
RECURSIVE SendAll(_, _, _, _)
SendAll(net, src, ps, k) ==
    IF k > Len(ps) THEN net
    ELSE SendAll(net (+) SetToBag({Envelope(src, ps[k].remoteAddr, ps[k])}), src, ps, k + 1)

\* The function f with the value v at i.
FnPut(f, i, v) == [j \in AllIDs |-> IF j = i THEN v ELSE f[j]]

EventsOf(es, kind) == {es[k].id : k \in {j \in DOMAIN es : es[j].kind = kind}}

MemosOf(es) == {<<es[k].id, es[k].body>> : k \in {j \in DOMAIN es : es[j].kind = "memo"}}

Quiet == cnet = EmptyBag

Up(i) == cdown[i] = "up"

\* The state of the nodes and of the network as one value.
Cluster == [fsm |-> cfsm, net |-> cnet, down |-> cdown, wgs |-> cwgs,
            joined |-> cjoined, failed |-> cfailed, memos |-> cmemos]

\* The cluster after the engine operation of node i with outcome c, net
\* being the datagrams in flight: a panic ends the process; otherwise the
\* callbacks of its events run and its packets are sent, unless a receive
\* returned false, which ends both loops of the node.
Outcome(i, c, net) ==
    LET h == Dispatch(Handlers(cwgs[i], [j \in AllIDs |-> "none"], [j \in AllIDs |-> NoMemoH],
                               [j \in AllIDs |-> "none"]), c.ev)
    IN  IF c.panic \/ h.panic
        THEN [Cluster EXCEPT !.net = net, !.down = FnPut(cdown, i, "crashed")]
        ELSE [fsm |-> FnPut(cfsm, i, c.s),
              net |-> IF c.ok THEN SendAll(net, i, c.ps, 1) ELSE net,
              down |-> IF c.ok THEN cdown ELSE FnPut(cdown, i, "left"),
              wgs |-> FnPut(cwgs, i, h.wgs),
              joined |-> FnPut(cjoined, i, cjoined[i] \cup EventsOf(c.ev, "join")),
              failed |-> FnPut(cfailed, i, cfailed[i] \cup EventsOf(c.ev, "fail")),
              memos |-> FnPut(cmemos, i, cmemos[i] \cup MemosOf(c.ev))]

\* The cluster becomes o.
Becomes(o) ==
    /\ cfsm' = o.fsm
    /\ cnet' = o.net
    /\ cdown' = o.down
    /\ cwgs' = o.wgs
    /\ cjoined' = o.joined
    /\ cfailed' = o.failed
    /\ cmemos' = o.memos

\* Node.Join of node i with the address of node j.
ClusterJoin(i, j) ==
    /\ Up(i)
    /\ cnet' = cnet (+) SetToBag({Envelope(i, AddrOf(j),
                     Packet("ping", NoID, NoAddr, NoID, NoAddr, <<aliveMessage(cfsm[i])>>))})
    /\ UNCHANGED <<cfsm, ctimer, cdown, cwgs, cjoined, cfailed, cmemos, cposted, cread>>

\* nodes[1].Join(addr0).
JoinB ==
    /\ cphase = "start"
    /\ cphase' = "b"
    /\ ClusterJoin(NodeB, NodeA)
    /\ UNCHANGED notClusterVars

\* The members of node i are exactly the ids in S.
MembersAre(i, S) == DOMAIN cfsm[i].members = S

\* nodes[2].Join(addr0), after the first two nodes have joined.
JoinC ==
    /\ cphase = "b" /\ Quiet
    /\ MembersAre(NodeA, {NodeB}) /\ MembersAre(NodeB, {NodeA})
    /\ cphase' = "c"
    /\ ClusterJoin(NodeC, NodeA)
    /\ UNCHANGED notClusterVars

\* runTick of node i, periodTimer fires. The period of about a second is
\* long against the pingTimeout and the delivery of a datagram: the last
\* pingTimer has fired and no datagram is in flight.
ClusterTick(i) ==
    /\ Up(i) /\ Quiet /\ ~ctimer[i]
    /\ \E o \in {Outcome(i, c, cnet) : c \in tick(Ctx(cfsm[i]))} : Becomes(o)
    /\ ctimer' = FnPut(ctimer, i, TRUE)
    /\ UNCHANGED <<cphase, cposted, cread, notClusterVars>>

\* runTick of node i, pingTimer fires.
ClusterTimeout(i) ==
    /\ Up(i) /\ Quiet /\ ctimer[i]
    /\ \E o \in {Outcome(i, c, cnet) : c \in timeout(Ctx(cfsm[i]))} : Becomes(o)
    /\ ctimer' = FnPut(ctimer, i, FALSE)
    /\ UNCHANGED <<cphase, cposted, cread, notClusterVars>>

\* The node that listens on the address to.
NodeAt(to) == CHOOSE i \in AllIDs : AddrOf(i) = to

\* The cluster after runReceive of the node that datagram e is addressed
\* to read it: the packet gets the sender's id and address, the engine
\* receives it and the answers are sent. A node whose loops have ended
\* reads nothing.
Delivered(e) ==
    LET i == NodeAt(e.to)
        net == cnet (-) SetToBag({e})
        p == [e.p EXCEPT !.remoteID = e.src, !.remoteAddr = AddrOf(e.src)]
    IN  IF Up(i)
        THEN {Outcome(i, c, net) : c \in receive(Ctx(cfsm[i]), p)}
        ELSE {[Cluster EXCEPT !.net = net]}

\* Once gotAck is set, the pingTimer that fires finds nothing to do
\* (timeout returns nil until the next tick unsets gotAck): ctimer drops it.
ClusterDeliver ==
    /\ \E o \in UNION {Delivered(e) : e \in BagToSet(cnet)} :
          /\ Becomes(o)
          /\ ctimer' = [i \in AllIDs |-> ctimer[i] /\ ~o.fsm[i].gotAck]
    /\ cread' = 1 - cread
    /\ UNCHANGED <<cphase, cposted, notClusterVars>>

\* Every node has exactly the other two as members.
AllJoined == \A i \in AllIDs : MembersAre(i, AllIDs \ {i})

\* Every node has sent its membership news as often as its quota allows.
Settled == \A i \in AllIDs : QLen(cfsm[i].msgQueue) = 0 /\ QLen(cfsm[i].memoQueue) = 0

\* nodes[0].conn.Close() in the settled group of three: node A stops
\* sending and receiving.
ClusterStop ==
    /\ cphase = "c" /\ Quiet /\ AllJoined /\ Settled
    /\ \A i \in AllIDs : Up(i)
    /\ cdown' = FnPut(cdown, NodeA, "stopped")
    /\ UNCHANGED <<cfsm, cnet, ctimer, cwgs, cjoined, cfailed, cmemos, cphase, cposted,
                   cread, notClusterVars>>

\* nodes[0].PostMemo in the settled group of three.
ClusterPost ==
    /\ cphase = "c" /\ Quiet /\ AllJoined /\ Settled /\ ~cposted
    /\ \A i \in AllIDs : Up(i)
    /\ cfsm' = FnPut(cfsm, NodeA, postMemo(Ctx(cfsm[NodeA]), "m0", "yo").c.s)
    /\ cposted' = TRUE
    /\ UNCHANGED <<cnet, ctimer, cdown, cwgs, cjoined, cfailed, cmemos, cphase, cread,
                   notClusterVars>>

ClusterRun == \E i \in AllIDs : ClusterTick(i) \/ ClusterTimeout(i)

\* What ClusterTick(i), ClusterTimeout(i) and ClusterDeliver do to ctimer
\* and cread. No other step changes them so, and an engine operation always
\* has an outcome, so these are enabled when those are and occur when those
\* occur.
TickFires(i) == Up(i) /\ Quiet /\ ~ctimer[i] /\ ctimer' = FnPut(ctimer, i, TRUE)

TimeoutFires(i) == Up(i) /\ Quiet /\ ctimer[i] /\ ctimer' = FnPut(ctimer, i, FALSE)

DatagramRead == ~Quiet /\ cread' = 1 - cread

\* A datagram in flight arrives, and the timers of a running node fire
\* again and again, whatever the other nodes send in between; a Join call
\* that the scenario makes is made.
ClusterFair ==
    /\ WF_vars(JoinB) /\ SF_vars(JoinC) /\ WF_cread(DatagramRead)
    /\ \A i \in AllIDs : SF_ctimer(TickFires(i) \/ TimeoutFires(i))

\* Three nodes that join one after the other.
NextJoin == JoinB \/ JoinC \/ ClusterRun \/ ClusterDeliver

SpecJoin == Init /\ [][NextJoin]_vars /\ ClusterFair

\* The group of three in which node A stops.
NextFail == NextJoin \/ ClusterStop

SpecFail == Init /\ [][NextFail]_vars /\ ClusterFair

\* The group of three in which node A posts a memo.
NextPost == NextJoin \/ ClusterPost

SpecPost == Init /\ [][NextPost]_vars /\ ClusterFair

\* ------------------------------------------------------------- properties

Members == DOMAIN fsm.members
Suspects == DOMAIN fsm.suspects

\* The operation of a step adds X to members: X was no member and is one
\* afterwards, or was added and removed again within the operation.
AddsMember(X) ==
    /\ X \notin Members
    /\ \/ X \in DOMAIN fsm'.members
       \/ X \in fsm'.removed \ fsm.removed

\* The operation of a step removes X from members.
RemovesMember(X) ==
    \/ X \in Members /\ X \notin DOMAIN fsm'.members
    \/ X \notin Members /\ X \notin DOMAIN fsm'.members /\ X \in fsm'.removed \ fsm.removed

EventsOfStepMirror ==
    \A X \in AllIDs :
        /\ joins'[X] - joins[X] = IF AddsMember(X) THEN 1 ELSE 0
        /\ fails'[X] - fails[X] = IF RemovesMember(X) THEN 1 ELSE 0
        /\ fails'[X] > fails[X] /\ X \notin Members =>
              \E i, j \in DOMAIN events' :
                  i < j /\ events'[i] = JoinEvent(X) /\ events'[j] = FailEvent(X)

EventsAtMostOnce == \A X \in AllIDs : joins[X] <= 1 /\ fails[X] <= joins[X]

\* C1: an engine operation emits join(X) exactly when it adds X to members
\* and fail(X) exactly when it removes X from members; over a run there is at
\* most one join(X), at most one fail(X), and no fail(X) without an earlier
\* join(X).
EventsMirrorMembership == [][EventsOfStepMirror /\ EventsAtMostOnce']_vars

\* A tick has removed a peer that had joined, and emitted its fail event.
EventsMirrorWitness ==
    \E X \in Peers :
        /\ last.op = "tick" /\ CountEv(events, "fail", X) = 1
        /\ joins[X] = 1 /\ fails[X] = 1 /\ X \in fsm.removed

\* C2: per peer, a memo handler call has started only if the join handler
\* call has returned, and the fail handler call has started only if every
\* memo handler call has returned.
HandlerOrder ==
    \A X \in AllIDs :
        /\ memoH[X].run + memoH[X].done > 0 => joinH[X] = "done"
        /\ failH[X] \in {"running", "done"} => memoH[X].wait + memoH[X].run = 0

\* The fail handler of a peer runs after its join handler and two memo
\* handler calls.
HandlerOrderWitness ==
    \E X \in Peers : failH[X] = "running" /\ memoH[X].done = 2 /\ joinH[X] = "done"

\* C3: after every engine operation no id is both a member and dismissed.
MemberNotDismissed == Members \cap fsm.removed = {}

\* PostMemo has run with one peer dismissed and another a member.
MemberNotDismissedWitness ==
    last.op = "postMemo" /\ fsm.removed # {} /\ Members # {}

\* C4: after every engine operation every id with a suspicion counter is a
\* member.
SuspectsAreMembers == Suspects \subseteq Members

\* One suspect has been removed while another id is suspected.
SuspectsAreMembersWitness == fsm.removed # {} /\ Suspects # {}

\* C5: after every engine operation the Order holds exactly the keys of
\* members, each once, and 0 <= next <= length.
OrderHoldsMembers ==
    /\ Range(fsm.order.a) = Members
    /\ Len(fsm.order.a) = Cardinality(Members)
    /\ 0 <= fsm.order.next /\ fsm.order.next <= Len(fsm.order.a)

\* An id has left an Order that still holds a visited member.
OrderHoldsMembersWitness ==
    fsm.removed # {} /\ Len(fsm.order.a) = 1 /\ fsm.order.next = 1

\* C6: the local id is never a member, a suspect or dismissed, and no join
\* or fail event is about it.
SelfNeverTracked ==
    /\ Self \notin Members /\ Self \notin Suspects /\ Self \notin fsm.removed
    /\ joins[Self] = 0 /\ fails[Self] = 0

\* The node has processed an Alive message about itself with an incarnation
\* above its own.
SelfNeverTrackedWitness ==
    /\ ~crashed /\ last.op = "receive" /\ last.p.Msgs # <<>>
    /\ last.p.Msgs[1].NodeID = Self /\ last.p.Msgs[1].Type = "alive"
    /\ last.p.Msgs[1].Incarnation > fsm.incarnation

\* C7: once an id is dismissed it stays dismissed, is never a member again
\* and gets no second join event.
DismissedStaysOut ==
    [][\A X \in AllIDs : X \in fsm.removed =>
           /\ X \in fsm'.removed
           /\ X \notin DOMAIN fsm'.members
           /\ joins'[X] = joins[X]]_vars

\* Another peer has reported a dismissed id alive or suspected with the
\* largest incarnation.
DismissedStaysOutWitness ==
    \E X \in fsm.removed :
        /\ last.op = "receive" /\ last.p.remoteID # X /\ last.p.Msgs # <<>>
        /\ last.p.Msgs[1].NodeID = X /\ last.p.Msgs[1].Type \in {"alive", "suspected"}
        /\ last.p.Msgs[1].Incarnation = MaxInc

\* The news predicate as the specification words it.
NewsAsStated(s, m) ==
    LET X == m.NodeID
    IN /\ X \notin s.removed
       /\ \/ X \notin DOMAIN s.members
          \/ m.Type = "failed"
          \/ m.Incarnation > s.members[X].incarnation
          \/ /\ m.Incarnation = s.members[X].incarnation
             /\ m.Type = "suspected"
             /\ X \notin DOMAIN s.suspects

\* What the node knows about X, as a message.
Knowledge(s, X) ==
    IF X \in s.removed THEN Message("failed", X, NoAddr, 0, NoID, "")
    ELSE IF X \notin DOMAIN s.members THEN NilMsg
    ELSE IF X \in DOMAIN s.suspects
    THEN Message("suspected", X, NoAddr, s.members[X].incarnation, NoID, "")
    ELSE Message("alive", X, NoAddr, s.members[X].incarnation, NoID, "")

\* The membership messages about a peer, up to one incarnation above the
\* largest a peer sends.
NewsMsgs ==
    {Message(typ, id, AddrOf(id), inc, NoID, "") :
        typ \in {"alive", "suspected", "failed"}, id \in Peers, inc \in 0..(MaxInc + 1)}

\* C8: for a message about another id, isMemberNews is true exactly when the
\* id is not dismissed and is unknown, or the message is Failed, or carries a
\* higher incarnation, or is a Suspected of the same incarnation about a
\* non-suspect; it is false for the nil message; and it agrees with
\* supersedes applied to the node's knowledge of the id.
NewsPredicate ==
    /\ ~isMemberNews(fsm, NilMsg)
    /\ \A m \in NewsMsgs :
          /\ isMemberNews(fsm, m) = NewsAsStated(fsm, m)
          /\ isMemberNews(fsm, m) = supersedes(m, Knowledge(fsm, m.NodeID))

\* The table holds a suspect of the largest incarnation and a member that
\* is not suspected.
NewsPredicateWitness ==
    /\ \E X \in Suspects : fsm.members[X].incarnation = MaxInc
    /\ \E Y \in Members : Y \notin Suspects

\* The item of key in a queue.
QItem(q, key) == q.items[q.index[key] + 1]

\* C9: processing a Suspected message about the local id with the local
\* incarnation i makes the incarnation i+1 and leaves Alive(local id, i+1)
\* in the membership queue under the local id with count 0; with any other
\* incarnation it changes neither the incarnation nor the queue.
Refutation ==
    \A inc \in 0..(MaxInc + 2) :
        \A c \in processMsg(Ctx(fsm), Message("suspected", Self, AddrOf(Self), inc, NoID, "")) :
            IF inc = fsm.incarnation
            THEN /\ c.s.incarnation = inc + 1
                 /\ Self \in DOMAIN c.s.msgQueue.index
                 /\ QItem(c.s.msgQueue, Self)
                      = [key |-> Self, count |-> 0,
                         value |-> Message("alive", Self, NoAddr, inc + 1, NoID, "")]
            ELSE c.s.incarnation = fsm.incarnation /\ c.s.msgQueue = fsm.msgQueue

\* The node has refuted a suspicion that an ack carried.
RefutationWitness ==
    /\ last.op = "receive" /\ last.p.Type = "ack" /\ last.p.Msgs # <<>>
    /\ last.p.Msgs[1].NodeID = Self /\ last.p.Msgs[1].Type = "suspected"
    /\ last.p.Msgs[1].Incarnation + 1 = fsm.incarnation
    /\ QItem(fsm.msgQueue, Self).count = 0

\* The packet holds a suspicion of the local id for every incarnation from
\* i up to j - 1.
RefutesFromTo(p, i, j) ==
    \A n \in i..(j - 1) :
        \E k \in DOMAIN p.Msgs :
            /\ p.Msgs[k].NodeID = Self /\ p.Msgs[k].Type = "suspected"
            /\ p.Msgs[k].Incarnation = n

\* C10: the local incarnation never decreases; tick, timeout and PostMemo
\* leave it unchanged, and so does receive unless the packet carries a
\* Suspected message about the local id with the current incarnation.
IncarnationFrame ==
    [][/\ fsm'.incarnation >= fsm.incarnation
       /\ fsm'.incarnation # fsm.incarnation =>
             /\ last'.op = "receive"
             /\ RefutesFromTo(last'.p, fsm.incarnation, fsm'.incarnation)]_vars

\* After a refutation the node has received an Alive message about itself
\* and kept its incarnation.
IncarnationFrameWitness ==
    /\ fsm.incarnation = 1 /\ last.op = "receive" /\ last.p.Msgs # <<>>
    /\ last.p.Msgs[1].NodeID = Self /\ last.p.Msgs[1].Type = "alive"

\* A state machine with m members.
SizedMachine(m) ==
    [newStateMachine EXCEPT
        !.members = SeqOf([i \in 1..m |-> [incarnation |-> 0, contacted |-> FALSE,
                                            addr |-> NoAddr]], m)]

\* The specification's D(n), the ceiling of 2 ln n: the least d with
\* n^2 <= e^d.
DStated(n) ==
    IF n = 1 THEN 0
    ELSE CHOOSE d \in 1..Len(ExpFloor) :
           /\ n * n <= ExpFloor[d]
           /\ \A d2 \in 1..(d - 1) : n * n > ExpFloor[d2]

\* The ceiling of 3 ln(m+1) for m = 0..7 and the floor of 3 ln m, plus 1,
\* for m = 1..7.
QuotaTable == <<0, 3, 4, 5, 5, 6, 6, 7>>
TimeoutTable == <<1, 3, 4, 5, 5, 6, 6>>

\* C12 as stated: for every member count m the quota of the queues and the
\* suspicion timeout are both the ceiling of 2 ln(m+1).
DisseminationFactorAsStated ==
    /\ logn3(fsm) = DStated(Cardinality(Members) + 1)
    /\ suspicionTimeout(fsm) = DStated(Cardinality(Members) + 1)
    /\ \A m \in 0..MaxMembers :
          /\ logn3(SizedMachine(m)) = DStated(m + 1)
          /\ suspicionTimeout(SizedMachine(m)) = DStated(m + 1)

\* C12, amended: for every member count m the quota of both queues is the
\* ceiling of 3 ln(m+1), and for m >= 1 the suspicion timeout is the floor
\* of 3 ln m, plus 1, which for m >= 2 is the quota at m-1 members.
QuotaAndTimeout ==
    /\ logn3(fsm) = QuotaTable[Cardinality(Members) + 1]
    /\ Members # {} => suspicionTimeout(fsm) = TimeoutTable[Cardinality(Members)]
    /\ \A m \in 0..MaxMembers : logn3(SizedMachine(m)) = QuotaTable[m + 1]
    /\ \A m \in 1..MaxMembers : suspicionTimeout(SizedMachine(m)) = TimeoutTable[m]
    /\ \A m \in 2..MaxMembers :
          suspicionTimeout(SizedMachine(m)) = logn3(SizedMachine(m - 1))

\* Two members: the quota is 4 and the suspicion timeout 3.
QuotaAndTimeoutWitness ==
    Cardinality(Members) = 2 /\ logn3(fsm) = 4 /\ suspicionTimeout(fsm) = 3

\* The step is a tick.
TickStep == nTick' = nTick + 1

\* The tick of the step declares X failed.
FailsInTick(X) == X \in Members /\ X \in fsm'.removed

\* What the tick that declares X failed does about X: X leaves members and
\* suspects, a Failed message about X is in the membership queue, and one
\* ping that carries only that message goes to X.
FailedEffects(X) ==
    /\ X \notin DOMAIN fsm'.members /\ X \notin DOMAIN fsm'.suspects
    /\ X \in fsm'.removed
    /\ X \in DOMAIN fsm'.msgQueue.index
    /\ QItem(fsm'.msgQueue, X).value = Message("failed", X, fsm.members[X].addr, 0, NoID, "")
    /\ Cardinality({i \in DOMAIN out' :
                      out'[i] = Packet("ping", X, fsm.members[X].addr, NoID, NoAddr,
                                       <<Message("failed", X, fsm.members[X].addr, 0, NoID, "")>>)})
         = 1

\* C11 as stated: a tick declares a suspect failed exactly when its
\* incremented counter reaches the ceiling of 2 ln(|members|+1), and then
\* removes it, queues the Failed message and pings it once, whatever the
\* order in which the tick visits the suspects.
SuspicionTimeoutAsStated ==
    [][TickStep =>
         /\ \A X \in Suspects :
               /\ FailsInTick(X) <=> fsm.suspects[X] + 1 >= DStated(Cardinality(Members) + 1)
               /\ FailsInTick(X) => FailedEffects(X)
         /\ \A c1, c2 \in tick(Ctx(fsm)) : c1.s.removed = c2.s.removed]_vars

\* C11, amended: a tick declares a suspect failed when its incremented
\* counter reaches the floor of 3 ln m, plus 1, for the member count m at
\* the moment the suspect is visited: always when it reaches the value for
\* the members at the start of the tick, never when it is below the value
\* for the members left after the tick plus the suspect itself; and then
\* it removes it, queues the Failed message and pings it once.
SuspicionTimeout ==
    [][TickStep =>
         \A X \in Suspects :
            /\ fsm.suspects[X] + 1 >= TimeoutTable[Cardinality(Members)] => FailsInTick(X)
            /\ FailsInTick(X) =>
                  fsm.suspects[X] + 1 >= TimeoutTable[Cardinality(DOMAIN fsm'.members) + 1]
            /\ FailsInTick(X) => FailedEffects(X)]_vars

\* A tick has declared a suspect failed while another member remains.
SuspicionTimeoutWitness ==
    /\ last.op = "tick" /\ Members # {}
    /\ \E X \in fsm.removed : CountEv(events, "fail", X) = 1 /\ X \in DOMAIN fsm.msgQueue.index

\* The Failed message about the local id.
FailedSelf == Message("failed", Self, AddrOf(Self), 0, NoID, "")

\* The message lists that begin with the Failed message about the local id:
\* it alone, or followed by any one message.
FailedSelfLists == {<<FailedSelf>>} \cup {<<FailedSelf, m>> : m \in InMsgs}

\* The packets of every type from src that carry such a list.
FailedSelfPackets(src) ==
    {Pk(typ, src, NoID, msgs) : typ \in {"ping", "ack"}, msgs \in FailedSelfLists}
    \cup {Pk("pingReq", src, tgt, msgs) : tgt \in Peers \ {src}, msgs \in FailedSelfLists}

\* C13: receive of a packet from a sender that is not dismissed, whose
\* messages begin with a Failed message about the local id, reports that the
\* node cannot continue, returns no packet and emits no event, and leaves
\* the engine as it was, so no message after the Failed one is processed;
\* and the receive loop that received such a packet has stopped, with no
\* packet to send.
SelfFailedTerminal ==
    /\ \A src \in AllIDs \ fsm.removed : \A p \in FailedSelfPackets(src) :
          \A c \in receive(Ctx(fsm), p) :
             ~c.ok /\ ~c.panic /\ c.ps = <<>> /\ c.ev = <<>> /\ c.s = fsm
    /\ (last.op = "receive" /\ last.p.Msgs # <<>> /\ last.p.Msgs[1] = FailedSelf
           /\ last.p.remoteID \notin fsm.removed)
          => stopTick /\ out = <<>> /\ events = <<>>

SelfFailedTerminalWitness ==
    /\ last.op = "receive" /\ last.p.Type = "ping" /\ last.p.Msgs = <<FailedSelf>>
    /\ last.p.remoteID \in Members
    /\ stopTick /\ out = <<>>

UpdatesClosed == "updates" \in closedCh

MemosClosed == "memos" \in closedCh

\* Once the receive loop has stopped, the tick loop stops and the Updates
\* channel is closed.
TickLoopStops == stopTick ~> (tickDone /\ UpdatesClosed)

\* No tick and no timeout is executed once the tick loop has stopped.
NoTickAfterStop == [][tickDone => UNCHANGED <<fsm, nTick, pingTimer>>]_vars

\* C14: once the receive loop has stopped, the tick loop stops and both the
\* Updates channel and the Memos channel are closed in the end.
Shutdown == stopTick ~> (tickDone /\ UpdatesClosed /\ MemosClosed)

\* A step is a receive of a packet whose sender is removed.
ReceivesFromRemoved == nRecv' = nRecv + 1 /\ last'.p.remoteID \in fsm.removed

\* C15: a receive of a packet whose sender is removed returns no packet,
\* emits no event, leaves the whole engine unchanged and does not stop the
\* receive loop, whatever the packet's type and messages.
RemovedSenderDropped ==
    [][ReceivesFromRemoved =>
         /\ fsm' = fsm /\ out' = <<>> /\ events' = <<>>
         /\ ~crashed' /\ ~stopTick'
         /\ joins' = joins /\ fails' = fails]_vars

RemovedSenderDroppedWitness ==
    /\ last.op = "receive" /\ last.p.remoteID \in fsm.removed
    /\ last.p.Msgs = <<FailedSelf>>
    /\ out = <<>> /\ ~stopTick

\* A step is a receive of a Ping whose sender is not removed and that
\* carries no Failed message about the local id.
ReceivesPing ==
    /\ nRecv' = nRecv + 1
    /\ last'.p.Type = "ping"
    /\ last'.p.remoteID \notin fsm.removed
    /\ \A i \in DOMAIN last'.p.Msgs :
          ~(last'.p.Msgs[i].Type = "failed" /\ last'.p.Msgs[i].NodeID = Self)

\* C16: a receive of a Ping from a sender that is not removed, without a
\* Failed message about the local id, returns exactly one packet, an Ack
\* addressed to the sender, whether or not the sender is a member.
PingIsAcked ==
    [][ReceivesPing =>
         /\ ~crashed'
         /\ Len(out') = 1
         /\ out'[1].Type = "ack"
         /\ out'[1].remoteID = last'.p.remoteID]_vars

\* C17: in every reachable state of the engine, receive of any packet
\* returns normally.
ReceiveNeverPanics ==
    \A p \in InPackets : \A c \in receive(Ctx(fsm), p) : ~c.panic

\* C18: after every operation every item of the membership queue has been
\* returned fewer times than the quota for the current number of members
\* (the quota of the code, which is never below the stated D).
QuotaInvariant ==
    ~crashed =>
       \A i \in DOMAIN fsm.msgQueue.items : fsm.msgQueue.items[i].count < logn3(fsm)

\* The same, for the states in which members is not empty.
QuotaInvariantWithMembers ==
    ~crashed /\ Members # {} =>
       \A i \in DOMAIN fsm.msgQueue.items : fsm.msgQueue.items[i].count < logn3(fsm)

\* The keys of the items of the Queue.
QueueItemKeys == {rq.items[i].key : i \in DOMAIN rq.items}

\* C19: with a constant quota, after every operation no item of the Queue
\* has a count that reaches the quota; and a key that was upserted and not
\* removed since is in the Queue with fewer than quota returns of its
\* value, or absent after exactly quota returns.
QuotaBoundsReturns ==
    /\ \A i \in DOMAIN rq.items : rq.items[i].count < rqQuota
    /\ \A k \in rqLive :
          IF k \in QueueItemKeys THEN rqRet[k] < rqQuota ELSE rqRet[k] = rqQuota

\* How often the item it occurs in items.
ItemCount(items, it) == Cardinality({i \in DOMAIN items : items[i] = it})

\* items2 holds the items of items1 and the items of the set added, with
\* the items whose key is in dropped left out.
ItemsAre(items2, items1, dropped, added) ==
    \A it \in Range(items1) \cup Range(items2) \cup added :
        ItemCount(items2, it) =
            (IF it.key \in dropped THEN 0 ELSE ItemCount(items1, it))
            + (IF it \in added THEN 1 ELSE 0)

\* C20: an Upsert of a key other than the zero key that is in the Queue
\* replaces the value of its item and sets its count to 0, the other items
\* and the number of items staying as they were; an Upsert of a key that is
\* not in the Queue, or of the zero key, adds one item with count 0; and no
\* key other than the zero key occurs twice.
UpsertReplacesOrAdds ==
    [][rqOp'.op = "Upsert" =>
         LET k == rqOp'.key
             it == [key |-> k, value |-> rqOp'.value, count |-> 0]
         IN /\ IF k # NoID /\ k \in QueueItemKeys
               THEN /\ Len(rq'.items) = Len(rq.items)
                    /\ ItemsAre(rq'.items, rq.items, {k}, {it})
               ELSE /\ Len(rq'.items) = Len(rq.items) + 1
                    /\ ItemsAre(rq'.items, rq.items, {}, {it})
            /\ \A key \in QueueKeys :
                  Cardinality({i \in DOMAIN rq'.items : rq'.items[i].key = key}) <= 1]_vars

UpsertReplacesOrAddsWitness ==
    /\ rqOp.op = "Upsert" /\ rqOp.key = "k1" /\ rqOp.value = "y"
    /\ rqOp.n = QLen(rq) /\ QLen(rq) >= 3
    /\ rqRet["k1"] = 0 /\ rqQuota = 2
    /\ \E i \in DOMAIN rq.items : rq.items[i].key = "k2" /\ rq.items[i].count = 1
    /\ Cardinality({i \in DOMAIN rq.items : rq.items[i].key = NoID}) = 2

\* The ways to find the values vals, in their order, at distinct places of
\* the heap array of q.
Places(q, vals) ==
    {f \in [DOMAIN vals -> DOMAIN q.items] :
        /\ \A i, j \in DOMAIN vals : i # j => f[i] # f[j]
        /\ \A i \in DOMAIN vals : q.items[f[i]].value = vals[i]}

\* C21: PopN(n) returns min(n, size) values of distinct items whose counts
\* before the call are nondecreasing in the order returned, and no item it
\* leaves unreturned had a count smaller than that of a returned item.
PopNReturnsLowest ==
    rqQuota > 0 =>
       \A n \in 0..MaxQueueLen :
          LET vals == PopN(rq, n, rqQuota).values
          IN /\ Len(vals) = Min(n, QLen(rq))
             /\ \E f \in Places(rq, vals) :
                   /\ \A i, j \in DOMAIN vals :
                         i < j => rq.items[f[i]].count <= rq.items[f[j]].count
                   /\ \A k \in DOMAIN rq.items \ Range(f) : \A i \in DOMAIN vals :
                         rq.items[k].count >= rq.items[f[i]].count

\* Every item of the heap array of q has at least the count of its parent.
HeapOrdered(q) ==
    \A j \in 1..(Len(q.items) - 1) : q.items[(j - 1) \div 2 + 1].count <= q.items[j + 1].count

\* C30: after every operation on the Queue every item has at least the
\* count of its heap parent, and the head has a minimum count.
HeapOrder ==
    /\ HeapOrdered(rq)
    /\ \A i \in DOMAIN rq.items : rq.items[1].count <= rq.items[i].count

\* A step is a Next that starts a new round.
RoundEnds == ordOp'.op = "Next" /\ ord.next = Len(ord.a) /\ ord' # ord

\* A step is a Next within the current round.
RoundGoesOn == ordOp'.op = "Next" /\ ord.next < Len(ord.a) /\ ord' # ord

\* C22: an element that is in the Order for a whole round is returned once
\* in it, whatever is added or removed meanwhile; an element added among
\* the visited ones is not returned in that round; and once Next was called
\* 2k times on an Order of k elements without an Add or a Remove between,
\* the last 2k calls have returned each of its elements.
RoundRobin ==
    /\ [](\A e \in ordWhole : ordCount[e] <= 1)
    /\ [][RoundEnds => \A e \in ordWhole : ordCount[e] = 1]_vars
    /\ [][RoundGoesOn => ordOp'.t \notin ordSkip]_vars
    /\ [](LET k == Len(ord.a)
          IN Len(ordRun) >= 2 * k => Range(ord.a) \subseteq Range(LastN(ordRun, 2 * k)))

RoundRobinWitness ==
    /\ ordOp.op = "Next" /\ ordOp.shuffled /\ ordOp.churned /\ ordOp.whole = 2
    /\ Len(ord.a) = 3

RoundRobinWindowWitness ==
    Len(ord.a) = 3 /\ Len(ordRun) = 6 /\ ordRun[1] = ordRun[6]

\* C23: what the consumer has received is what was sent, in sending order,
\* up to the values still in buf; and the consumer sees the Chan closed
\* only after the send endpoint was closed and it has received every value
\* sent.
ChanDelivery ==
    /\ bcSent = bcRecv \o bcBuf
    /\ bcOutClosed => bcInClosed /\ bcRecv = bcSent
    /\ bcSawClose => bcOutClosed

ChanDeliveryWitness ==
    /\ bcSawClose /\ Len(bcRecv) = MaxSends /\ bcRecv[1] # bcRecv[2]

\* C24: a pending send is accepted into buf in the end, however many values
\* buf holds and whether or not the consumer ever receives.
SendCompletes == (bcPending # NoValue) ~> (bcPending = NoValue)

SendCompletesWitness ==
    /\ bcRecv = <<>> /\ Len(bcBuf) = MaxSends /\ bcPending = NoValue /\ ~bcInClosed

\* The memo message that PostMemo with memo id mid and body b queues.
PostedMemo(mid, b) == Message("memo", Self, NoAddr, 0, mid, b)

\* A step adds the item (mid, PostedMemo(mid, b), 0) to the memo queue and
\* mid to the seen memos and changes nothing else of the state machine.
PostsMemo(mid, b) ==
    /\ mid \notin fsm.seenMemos
    /\ fsm' = [fsm EXCEPT !.seenMemos = @ \cup {mid}, !.memoQueue = fsm'.memoQueue]
    /\ Len(fsm'.memoQueue.items) = Len(fsm.memoQueue.items) + 1
    /\ ItemsAre(fsm'.memoQueue.items, fsm.memoQueue.items, {},
                {[key |-> mid, value |-> PostedMemo(mid, b), count |-> 0]})

\* C25: PostMemo returns the error exactly for the bodies longer than 500
\* bytes; a PostMemo that returns the error leaves the state machine as it
\* was and emits nothing; one that succeeds queues one new memo message of
\* the local id with count 0 and records its memo id as seen.
PostMemoLimit ==
    /\ [](\A mid \in LocalMemoIDs, b \in Bodies :
            (postMemo(Ctx(fsm), mid, b).err # "") <=> (BodyLen(b) > 500))
    /\ [][last'.op = "postMemoError" => fsm' = fsm /\ events' = <<>> /\ out' = <<>>]_vars
    /\ [][last'.op = "postMemo" =>
            \E mid \in LocalMemoIDs, b \in {c \in Bodies : BodyLen(c) <= 500} :
                PostsMemo(mid, b)]_vars

PostMemoLimitWitness ==
    /\ last.op = "postMemo"
    /\ Members # {}
    /\ \E i \in DOMAIN fsm.memoQueue.items :
          /\ fsm.memoQueue.items[i] = [key |-> "m0", value |-> PostedMemo("m0", "b500"), count |-> 0]
    /\ \E i \in DOMAIN fsm.memoQueue.items : fsm.memoQueue.items[i].key = "m1"

PostMemoErrorWitness == last.op = "postMemoError" /\ "m1" \in fsm.seenMemos

\* The memo ids of the memos the node posted that are still queued.
PostedQueued ==
    {fsm.memoQueue.items[i].key :
        i \in {j \in DOMAIN fsm.memoQueue.items : fsm.memoQueue.items[j].value.NodeID = Self}}

\* The packet of the last operation carries a memo message with memo id mid.
LastCarriesMemo(mid) ==
    /\ last.op = "receive"
    /\ \E i \in DOMAIN last.p.Msgs : last.p.Msgs[i].Type = "memo" /\ last.p.Msgs[i].MemoID = mid

\* C26: a node emits at most one Memo per memo id, whoever sends the memo
\* messages and however often: a Memo is emitted only for a memo id that was
\* not seen, which is seen from then on, and a seen id stays seen. Posting a
\* memo emits no Memo, and no Memo was ever emitted for a posted memo.
MemoAtMostOnce ==
    /\ [](\A m \in AllMemoIDs : memoEv[m] <= 1)
    /\ [](\A m \in PostedQueued : memoEv[m] = 0 /\ m \in fsm.seenMemos)
    /\ [][/\ fsm.seenMemos \subseteq fsm'.seenMemos
          /\ \A m \in AllMemoIDs :
                memoEv'[m] # memoEv[m] => m \notin fsm.seenMemos /\ m \in fsm'.seenMemos
          /\ last'.op \in {"postMemo", "postMemoError"} => memoEv' = memoEv]_vars

\* A memo that was delivered arrives again from the other peer.
MemoAtMostOnceWitness ==
    /\ memoEv["m1"] = 1
    /\ "m0" \in PostedQueued
    /\ ~crashed
    /\ events = <<>>
    /\ LastCarriesMemo("m1")
    /\ last.p.remoteID = "b"
    /\ \E i \in DOMAIN fsm.memoQueue.items :
          /\ fsm.memoQueue.items[i].key = "m1"
          /\ fsm.memoQueue.items[i].value.NodeID = "a"

\* The posted memo arrives from a peer that names itself as its source.
PostedMemoReturnsWitness ==
    /\ "m0" \in PostedQueued
    /\ ~crashed
    /\ LastCarriesMemo("m0")
    /\ last.p.Msgs[1].NodeID = "a"
    /\ memoEv["m0"] = 0

\* A and B are each other's members and have emitted each other's join.
JoinedAB ==
    /\ NodeB \in DOMAIN cfsm[NodeA].members /\ NodeA \in DOMAIN cfsm[NodeB].members
    /\ NodeB \in cjoined[NodeA] /\ NodeA \in cjoined[NodeB]

\* A has exactly B and C as members, C has A, and A and C have emitted each
\* other's join.
JoinedThroughA ==
    /\ MembersAre(NodeA, {NodeB, NodeC}) /\ NodeA \in DOMAIN cfsm[NodeC].members
    /\ NodeC \in cjoined[NodeA] /\ NodeA \in cjoined[NodeC]

\* A node's members are other nodes, and it has emitted the join of each.
MembersJoined == \A i \in AllIDs : DOMAIN cfsm[i].members \subseteq cjoined[i] \ {i}

FailedAt(i, j) == j \in cfailed[i] /\ j \notin DOMAIN cfsm[i].members

MemoAt(i) == <<NodeA, "yo">> \in cmemos[i]

NewerAbout(X, typ) ==
    /\ last'.op = "receive"
    /\ \E i \in DOMAIN last'.p.Msgs :
          LET m == last'.p.Msgs[i]
          IN m.NodeID = X /\ m.Type = typ /\ m.Incarnation > fsm.members[X].incarnation

\* C31 as stated: while X remains a suspect no step lowers its suspicion
\* counter, and X stops being a suspect only by being declared failed or by
\* an Alive message about X with a higher incarnation.
SuspicionKeptAsStated ==
    [][\A X \in Peers : isSuspect(fsm, X) =>
          /\ isSuspect(fsm', X) => fsm'.suspects[X] >= fsm.suspects[X]
          /\ ~isSuspect(fsm', X) => ~isMember(fsm', X) \/ NewerAbout(X, "alive")]_vars

\* C31, amended: while X remains a suspect a tick adds one to its counter,
\* the expired-ping-target step included, and a Suspected message about X
\* with the known incarnation or a lower one leaves the counter alone; a
\* Suspected message about X with a higher incarnation sets the counter
\* back to 0; X stops being a suspect only by being declared failed or by
\* an Alive message about X with a higher incarnation.
SuspicionKept ==
    [][\A X \in Peers : isSuspect(fsm, X) =>
          /\ (isSuspect(fsm', X) /\ TickStep) => fsm'.suspects[X] = fsm.suspects[X] + 1
          /\ (isSuspect(fsm', X) /\ fsm'.suspects[X] < fsm.suspects[X]) =>
                NewerAbout(X, "suspected") /\ fsm'.suspects[X] = 0
          /\ (isSuspect(fsm', X) /\ ~TickStep /\ ~NewerAbout(X, "suspected")) =>
                fsm'.suspects[X] = fsm.suspects[X]
          /\ ~isSuspect(fsm', X) => ~isMember(fsm', X) \/ NewerAbout(X, "alive")]_vars

\* A Suspected message about a suspect with its known incarnation has been
\* received and the suspect's counter, which ticks had raised, is kept.
SuspicionKeptWitness ==
    /\ last.op = "receive" /\ last.p.Msgs # <<>>
    /\ LET m == last.p.Msgs[1]
       IN /\ m.Type = "suspected" /\ isSuspect(fsm, m.NodeID)
          /\ m.Incarnation = fsm.members[m.NodeID].incarnation
          /\ fsm.suspects[m.NodeID] >= 1

\* The step is the receipt of a packet.
ReceiveStep == nRecv' = nRecv + 1

\* C32: a received memo whose source id is not a member when the message is
\* processed produces no memo event, is not put in the memo queue and is
\* not marked seen. (The packets of SpecMemo carry one message, so the
\* members at that moment are those before the step.)
MemoOnlyFromMember ==
    [][ReceiveStep =>
          \A i \in DOMAIN last'.p.Msgs :
             LET m == last'.p.Msgs[i]
             IN (m.Type = "memo" /\ ~isMember(fsm, m.NodeID)) =>
                   /\ \A j \in DOMAIN events' : events'[j].kind # "memo"
                   /\ fsm'.memoQueue = fsm.memoQueue
                   /\ fsm'.seenMemos = fsm.seenMemos]_vars

\* The step is the expiry of the ping timer.
TimeoutStep == pingTimer /\ ~pingTimer' /\ last'.op = "timeout"

\* The membership of s: the members with their incarnations and addresses,
\* the suspects, the dismissed ids and the Order.
Membership(s) ==
    [members |-> [X \in DOMAIN s.members |->
                    <<s.members[X].incarnation, s.members[X].addr>>],
     suspects |-> s.suspects, removed |-> s.removed, order |-> s.order]

PingRequestsAckedWitness ==
    /\ last.op = "timeout" /\ fsm.gotAck /\ isMember(fsm, fsm.pingTarget) /\ out = <<>>

\* The requestors recorded for target T.
RequestorsOf(s, T) == {R \in DOMAIN s.pingReqs : s.pingReqs[R] = T}

\* The received packet of the step was processed: its sender is not
\* dismissed and none of its messages declared the local node failed.
Processed == ReceiveStep /\ last'.p.remoteID \notin fsm.removed /\ ~stopTick'

\* A PingReq of R naming T records R -> T and returns one Ping to T.
RelayRecords ==
    (Processed /\ last'.p.Type = "pingReq") =>
        /\ fsm'.pingReqs = MapPut(fsm.pingReqs, last'.p.remoteID, last'.p.TargetID)
        /\ Len(out') = 1
        /\ out'[1].Type = "ping" /\ out'[1].remoteID = last'.p.TargetID

\* An Ack of T returns one Ack naming T to each requestor recorded for T,
\* and nothing else, and deletes their entries.
RelayForwards ==
    (Processed /\ last'.p.Type = "ack") =>
        LET T == last'.p.remoteID
            Rs == RequestorsOf(fsm, T)
        IN /\ Len(out') = Cardinality(Rs)
           /\ \A R \in Rs : \E i \in DOMAIN out' : out'[i].remoteID = R
           /\ \A i \in DOMAIN out' :
                 out'[i].Type = "ack" /\ out'[i].TargetID = T /\ out'[i].remoteID \in Rs
           /\ fsm'.pingReqs = MapOf(fsm.pingReqs, (DOMAIN fsm.pingReqs) \ Rs)

\* C34: a PingReq of R naming T records R -> T, replacing any entry of R,
\* and returns one Ping to T; an Ack of T returns exactly one Ack with
\* TargetID T to each requestor recorded for T and deletes those entries; a
\* tick clears the table, so that an Ack is only ever forwarded to a node
\* that asked for that target since the last tick.
ProbeRelay ==
    [][/\ RelayRecords
       /\ RelayForwards
       /\ TickStep => fsm'.pingReqs = EmptyMap]_vars

\* X is a member that a packet was assembled for.
Contacted(s, X) == isMember(s, X) /\ s.members[X].contacted

\* The messages the two queues of s give to one packet: the memo popped
\* from the memo queue, if any, and the membership messages that fill up
\* the rest of the packet.
FromQueues(s) ==
    LET memos == IF QLen(s.memoQueue) > 0 THEN <<QPop(s.memoQueue, logn3(s)).value>> ELSE <<>>
    IN memos \o PopN(s.msgQueue, s.maxMsgs - Len(memos), logn3(s)).values

\* Packet assembly for member X in the current state: a packet to X not
\* contacted before starts with the Alive message of the local node at its
\* current incarnation, followed by what the queues give to the remaining
\* places, and a packet to X contacted before holds what the queues give
\* and nothing else; either way X is contacted afterwards.
IntroAssembled(X) ==
    LET c == makePacket(Ctx(fsm), "ping", X, NoID, NoAddr)
        s1 == [fsm EXCEPT !.maxMsgs = @ - 1]
    IN /\ Contacted(c.s, X) /\ Len(c.ps) = 1 /\ c.ps[1].remoteID = X
       /\ c.ps[1].Msgs = IF Contacted(fsm, X) THEN FromQueues(fsm)
                         ELSE <<aliveMessage(fsm)>> \o FromQueues(s1)

\* In a step that does not crash, a member X comes to be contacted only
\* with a packet to X that starts with the local Alive message, stays
\* contacted while it is a member, and as long as it is not contacted gets
\* only single-message pings about itself.
IntroStep(X) ==
    /\ (Contacted(fsm', X) /\ ~Contacted(fsm, X)) =>
          \E i \in DOMAIN out' :
             /\ out'[i].remoteID = X /\ out'[i].Msgs # <<>>
             /\ out'[i].Msgs[1] = aliveMessage(fsm')
    /\ (Contacted(fsm, X) /\ isMember(fsm', X)) => Contacted(fsm', X)
    /\ (isMember(fsm', X) /\ ~Contacted(fsm', X)) =>
          \A i \in DOMAIN out' :
             out'[i].remoteID = X =>
                /\ out'[i].Type = "ping" /\ Len(out'[i].Msgs) = 1
                /\ out'[i].Msgs[1].NodeID = X /\ out'[i].Msgs[1].Type = "suspected"

\* C35: the first packet that packet assembly builds for a member X
\* carries an Alive message about the local node at its current incarnation
\* and sets X's contacted flag; the flag stays set while X is a member and
\* no later packet to X gets an introductory Alive added.
IntroductoryAlive ==
    [][/\ \A X \in Members : IntroAssembled(X)
       /\ ~crashed' => \A X \in Peers : IntroStep(X)]_vars

\* An ack went to a member without the local Alive message in front: the
\* member was contacted before.
IntroductoryAliveLaterWitness ==
    /\ last.op = "receive" /\ ~crashed
    /\ \E i \in DOMAIN out :
          /\ out[i].Type = "ack" /\ out[i].Msgs # <<>> /\ out[i].Msgs[1].NodeID # Self
          /\ Contacted(fsm, out[i].remoteID)

\* A packet to a member not contacted before went out with the Alive
\* message of the local node, which has refuted a suspicion, in front.
IntroductoryAliveWitness ==
    /\ fsm.incarnation = 1 /\ ~crashed
    /\ \E i \in DOMAIN out :
          /\ Len(out[i].Msgs) >= 2 /\ out[i].Msgs[1] = aliveMessage(fsm)
          /\ Contacted(fsm, out[i].remoteID)

\* The number of memo messages among msgs.
MemoCount(msgs) == Cardinality({i \in DOMAIN msgs : msgs[i].Type = "memo"})

\* The tick of the step declared X failed or suspected and returned a ping
\* to X whose only message says so.
LastRites(X) ==
    \/ /\ isMember(fsm, X) /\ ~isMember(fsm', X)
       /\ \E i \in DOMAIN out' :
             /\ out'[i].Type = "ping" /\ out'[i].remoteID = X
             /\ out'[i].Msgs = <<failedMessage(fsm, X)>>
    \/ /\ ~isSuspect(fsm, X) /\ isSuspect(fsm', X)
       /\ \E i \in DOMAIN out' :
             /\ out'[i].Type = "ping" /\ out'[i].remoteID = X
             /\ out'[i].Msgs = <<suspectedMessage(fsm', X)>>

\* C36: every packet that tick, timeout or receive returns carries at most
\* maxMsgs = 6 messages, the introductory Alive and the memo included, and
\* at most one memo; the ping with which a tick tells a member that it is
\* now suspected or failed carries that one message.
PacketSize ==
    [][/\ \A i \in DOMAIN out' :
             Len(out'[i].Msgs) <= fsm'.maxMsgs /\ MemoCount(out'[i].Msgs) <= 1
       /\ (TickStep /\ ~crashed') =>
             \A X \in DOMAIN fsm.members :
                (isMember(fsm', X) /\ (isSuspect(fsm', X) <=> isSuspect(fsm, X))) \/ LastRites(X)]_vars

\* A packet went out with six messages, a memo among them, while the memo
\* queue held another memo and the membership queue more messages.
PacketSizeWitness ==
    /\ QLen(fsm.memoQueue) >= 2 /\ QLen(fsm.msgQueue) >= 6
    /\ \E i \in DOMAIN out : Len(out[i].Msgs) = 6 /\ MemoCount(out[i].Msgs) = 1

\* A tick declared a member failed and sent it the one message.
PacketSizeLastRitesWitness ==
    /\ last.op = "tick" /\ fsm.removed # {}
    /\ \E i \in DOMAIN out :
          Len(out[i].Msgs) = 1 /\ out[i].Msgs[1].Type = "failed"
          /\ out[i].remoteID = out[i].Msgs[1].NodeID

\* The packet received in the step holds one message, a Failed message
\* about peer X, which is neither a member nor dismissed.
FailedUnknown(X) ==
    /\ Processed /\ Len(last'.p.Msgs) = 1
    /\ last'.p.Msgs[1].Type = "failed" /\ last'.p.Msgs[1].NodeID = X
    /\ ~isMember(fsm, X) /\ X \notin fsm.removed

\* C37: a Failed message about an id X that is neither a member nor
\* dismissed changes neither members, suspects, the dismissed ids nor the
\* Order and emits no event, but is put in the membership queue under key X
\* with count 0; X is not dismissed, and an Alive message about X
\* processed afterwards admits X.
FailedUnknownPropagated ==
    [][\A X \in Peers : FailedUnknown(X) =>
          /\ fsm'.members = fsm.members /\ fsm'.suspects = fsm.suspects
          /\ fsm'.removed = fsm.removed /\ fsm'.order = fsm.order
          /\ events' = <<>>
          /\ out' = <<>> =>
                /\ X \in DOMAIN fsm'.msgQueue.index
                /\ QItem(fsm'.msgQueue, X).value = last'.p.Msgs[1]
                /\ QItem(fsm'.msgQueue, X).count = 0
          /\ \A inc \in 0..MaxInc :
                \A c \in processMsg(Ctx(fsm'), Message("alive", X, AddrOf(X), inc, NoID, "")) :
                   isMember(c.s, X) /\ c.ev = <<JoinEvent(X)>>]_vars

\* The Failed message about an unknown peer is in the membership queue
\* and the peer is neither a member nor dismissed.
FailedUnknownWitness ==
    /\ last.op = "receive" /\ ~crashed /\ Len(last.p.Msgs) = 1
    /\ LET m == last.p.Msgs[1]
       IN /\ m.Type = "failed" /\ m.NodeID \in Peers
          /\ ~isMember(fsm, m.NodeID) /\ m.NodeID \notin fsm.removed
          /\ m.NodeID \in DOMAIN fsm.msgQueue.index
          /\ QItem(fsm.msgQueue, m.NodeID).value = m

\* The packet received in the step holds one message, which is about peer
\* X and identical to the one the membership queue holds under key X: the
\* last news about X that the node processed.
SeenAgain(X) ==
    /\ Processed /\ Len(last'.p.Msgs) = 1 /\ last'.p.Msgs[1].NodeID = X
    /\ X \in DOMAIN fsm.msgQueue.index
    /\ QItem(fsm.msgQueue, X).value = last'.p.Msgs[1]

\* C38: a membership message about X that is identical to the last one
\* processed about X is not news: it changes no table, emits no event and
\* leaves the membership queue, the pop count of the queued message about X
\* included, as it was.
Idempotence ==
    [][\A X \in Peers : SeenAgain(X) =>
          /\ fsm'.members = fsm.members /\ fsm'.suspects = fsm.suspects
          /\ fsm'.removed = fsm.removed /\ fsm'.order = fsm.order
          /\ events' = <<>>
          /\ fsm'.msgQueue = fsm.msgQueue]_vars

\* C39: for every peer X the call of the fail handler for X starts only
\* after the call of the join handler for X has returned, whether or not a
\* memo of X was delivered and however long the join handler takes.
FailAfterJoin ==
    \A X \in Peers : failH[X] \in {"running", "done"} => joinH[X] = "done"

\* C40: gotAck is set only if, since the last tick, an ack came in that
\* answers a ping sent to the current ping target in the current period; an
\* ack that answers the ping of an earlier period and arrives after a later
\* tick does not set it.
AckOfThisPeriod == fsm.gotAck => fresh

====
